---------------------------- MODULE Spec2Model ----------------------------
(***************************************************************************)
(* State-machine model of the image publish-and-deploy pipeline of the     *)
(* CLI: lambdaDeploy (src/src/commands/lambda.js) and the docker helper    *)
(* functions it drives: dockerLogin, dockerTag, dockerPush and             *)
(* pushImageToECR (the docker-helper code held in src/QUICK_START.md).     *)
(*                                                                         *)
(* Every Node callback (a subprocess event, a timer, an HTTP response) is  *)
(* one action.  The promise continuations a callback releases run as       *)
(* microtasks before any other callback, so they belong to the same        *)
(* action: the action of the event that settles an awaited promise also    *)
(* runs the awaiting code up to its next await.                            *)
(*                                                                         *)
(* The variable entry says which exported function the run called:         *)
(* lambdaDeploy (the CLI command), or dockerLogin / dockerPush called      *)
(* directly (both are exported by the helper module).                      *)
(***************************************************************************)
EXTENDS Integers, Sequences, FiniteSets, TLC

VARIABLES
    entry,              \* which exported function this run called
    pc,                 \* the await the run is suspended at, or its end
    failedAt,           \* the stage that failed ("none" while none has)
    exitCode,           \* process.exit code (-1: the process has not exited)
    calls,              \* the network operations started so far
    deploymentRequest,  \* lambdaDeploy: body of the credentials response
    confirmBody,        \* lambdaDeploy: body sent to the confirm endpoint
    tagResult,          \* pushImageToECR: the promise dockerTag returns
    retries,            \* dockerLogin: parameter retries
    attempt,            \* dockerLogin: loop variable attempt
    loginProcs,         \* dockerLogin: state of each attempt's subprocess
    timeoutId,          \* dockerLogin: the current attempt's timer
    elapsed,            \* dockerLogin: ms since the current attempt started
    attemptPromise,     \* dockerLogin: the current attempt's promise
    loginResult,        \* dockerLogin: the promise dockerLogin returns
    loginError,         \* dockerLogin: the error it was rejected with
    waits,              \* dockerLogin: the backoff waits made so far
    layers,             \* dockerPush: layers
    totalLayers,        \* dockerPush: totalLayers
    completedLayers,    \* dockerPush: completedLayers
    now,                \* dockerPush: Date.now(), ms since the push started
    lastOutput,         \* dockerPush: lastOutput
    hasError,           \* dockerPush: hasError
    errorMessage,       \* dockerPush: errorMessage (the chunks appended)
    timeoutCheck,       \* dockerPush: the watchdog interval timer
    pushProcess,        \* dockerPush: state of the push subprocess
    pushExitCode,       \* the code the push subprocess closed with (-1: none)
    chunkAt,            \* the time the subprocess last wrote a chunk
    pushPromise,        \* dockerPush: the promise dockerPush returns
    pushError,          \* dockerPush: the error it was rejected with
    lastEvent,          \* the last triple passed to onProgress
    lastPercent,        \* pushImageToECR: lastPercent of its callback
    options,            \* lambdaDeploy: options.envFile (given or not), options.env
    envFileOnDisk,      \* the env file: whether it exists, and its content
    environmentVars,    \* lambdaDeploy: environmentVars
    requestBody,        \* lambdaDeploy: body of the credentials request
    output,             \* the text the push subprocess writes to stdout
    pending,            \* the part of output not yet delivered in a chunk
    argument,           \* the name a storage or logs command is given
    httpRequest         \* the request such a command's makeApiRequest issues

vars == <<entry, pc, failedAt, exitCode, calls, deploymentRequest, confirmBody,
          tagResult,
          retries, attempt, loginProcs, timeoutId, elapsed, attemptPromise,
          loginResult, loginError, waits,
          layers, totalLayers, completedLayers, now, lastOutput, hasError,
          errorMessage, timeoutCheck, pushProcess, pushExitCode, chunkAt,
          pushPromise, pushError, lastEvent, lastPercent,
          options, envFileOnDisk, environmentVars, requestBody, output, pending,
          argument, httpRequest>>

\* What the run is given and never assigns.
inputVars == <<options, envFileOnDisk, output, argument>>
envVars == <<environmentVars, requestBody>>
deployVars == <<deploymentRequest, confirmBody>>
loginVars == <<retries, attempt, loginProcs, timeoutId, elapsed,
               attemptPromise, loginResult, loginError, waits>>
pushVars == <<layers, totalLayers, completedLayers, now, lastOutput, hasError,
              errorMessage, timeoutCheck, pushProcess, pushExitCode, chunkAt,
              pushPromise, pushError, lastEvent, lastPercent>>

---------------------------------------------------------------------------
(* Bounds of the model. *)

\* Clock advances modelled during one push.
MaxAdvances == 3
\* Error-stream chunks appended to errorMessage during one push.
MaxErrorChunks == 1
\* Where a chunk of scripted output may be cut inside a line.
CutAt == 16
\* Largest retries value a direct call of dockerLogin is given.
MaxRetries == 5

---------------------------------------------------------------------------
(* Program constants. *)

\* dockerLogin: TIMEOUT_MS
TIMEOUT_MS == 60000
\* pushImageToECR calls dockerLogin(ecrUrl, username, password, 3)
ECR_LOGIN_RETRIES == 3
\* dockerLogin: base of the backoff, 1000 * Math.pow(2, attempt - 1)
BACKOFF_BASE_MS == 1000
\* dockerLogin: cap of the backoff
BACKOFF_CAP_MS == 5000
\* dockerPush: the watchdog's inactivity window
STALL_MS == 600000
\* dockerPush: period of the watchdog's setInterval
CHECK_INTERVAL_MS == 5000

---------------------------------------------------------------------------
(* Text as a sequence of characters, and the String methods used on it.    *)

\* The characters \s and trim() take for white space, of those used here.
Whitespace == {" ", "\t", "\r", "\n"}

\* s.indexOf(c) + 1: the first position of character c, 0 when absent.
IndexOf(s, c) ==
    IF \E i \in 1..Len(s) : s[i] = c
    THEN CHOOSE i \in 1..Len(s) : s[i] = c /\ \A k \in 1..(i - 1) : s[k] # c
    ELSE 0

RECURSIVE Split(_, _)
\* s.split(c)
Split(s, c) ==
    LET i == IndexOf(s, c) IN
    IF i = 0 THEN <<s>>
    ELSE <<SubSeq(s, 1, i - 1)>> \o Split(SubSeq(s, i + 1, Len(s)), c)

RECURSIVE Join(_, _)
\* parts.join(c)
Join(parts, c) ==
    IF parts = <<>> THEN <<>>
    ELSE IF Len(parts) = 1 THEN parts[1]
    ELSE parts[1] \o <<c>> \o Join(Tail(parts), c)

RECURSIVE TrimStart(_)
TrimStart(s) ==
    IF s # <<>> /\ Head(s) \in Whitespace THEN TrimStart(Tail(s)) ELSE s

RECURSIVE TrimEnd(_)
TrimEnd(s) ==
    IF s # <<>> /\ s[Len(s)] \in Whitespace
    THEN TrimEnd(SubSeq(s, 1, Len(s) - 1))
    ELSE s

\* s.trim()
Trim(s) == TrimEnd(TrimStart(s))

\* s.startsWith(c) and s.endsWith(c) for a single character c.
StartsWith(s, c) == s # <<>> /\ s[1] = c
EndsWith(s, c) == s # <<>> /\ s[Len(s)] = c

\* Whether lit stands in s at position j.
LitAt(s, j, lit) ==
    /\ j >= 1
    /\ j + Len(lit) - 1 <= Len(s)
    /\ SubSeq(s, j, j + Len(lit) - 1) = lit

\* The length of the longest run of characters of set that starts at j.
RunLength(s, j, set) ==
    IF j > Len(s) \/ s[j] \notin set THEN 0
    ELSE LET ends == {k \in j..Len(s) : \A m \in j..k : s[m] \in set}
         IN (CHOOSE k \in ends : \A m \in ends : m <= k) - j + 1

\* Whether s.includes(needle).
Includes(s, needle) == \E j \in 1..Len(s) : LitAt(s, j, needle)

UpperToLower ==
    [A |-> "a", B |-> "b", C |-> "c", D |-> "d", E |-> "e", F |-> "f",
     G |-> "g", H |-> "h", I |-> "i", J |-> "j", K |-> "k", L |-> "l",
     M |-> "m", N |-> "n", O |-> "o", P |-> "p", Q |-> "q", R |-> "r",
     S |-> "s", T |-> "t", U |-> "u", V |-> "v", W |-> "w", X |-> "x",
     Y |-> "y", Z |-> "z"]

\* s.toLowerCase()
ToLowerCase(s) ==
    [i \in 1..Len(s) |->
        IF s[i] \in DOMAIN UpperToLower THEN UpperToLower[s[i]] ELSE s[i]]

---------------------------------------------------------------------------
(* Push output lines.  A line "<id>: <status> [<bar>] <cur><u>/<tot><u>"   *)
(* is a record of its parts; id and bar are sequences of characters, a     *)
(* size is a decimal literal with one fractional digit.                    *)

HexChars == {"a", "b", "c", "d", "e", "f",
             "0", "1", "2", "3", "4", "5", "6", "7", "8", "9"}

BarChars == {"=", ">", " "}

NoMatch == <<>>

Dec(i, f) == [int |-> i, frac |-> f]

\* parseFloat of a literal matched by [\d.]+, in tenths.
ParseFloat(lit) == 10 * lit.int + lit.frac

\* convertToBytes: units
units == [B |-> 1, KB |-> 1024, MB |-> 1024 * 1024, GB |-> 1024 * 1024 * 1024]

UnitFactor(unit) == IF unit \in DOMAIN units THEN units[unit] ELSE 1

\* convertToBytes(size, unit), size in tenths: size * (units[unit] || 1).
\* The whole and the fractional part are scaled apart to stay inside TLC's
\* integers; the inputs used give whole numbers of bytes.
ConvertToBytes(size, unit) ==
    (size \div 10) * UnitFactor(unit) + ((size % 10) * UnitFactor(unit)) \div 10

\* The id captured by ([a-f0-9]{12}): at the end of the text before the
\* colon.  The patterns are not anchored, so the twelve characters right
\* before the colon are what is captured.
MatchLayerId(text) ==
    IF Len(text) >= 12
       /\ \A i \in (Len(text) - 11)..Len(text) : text[i] \in HexChars
    THEN SubSeq(text, Len(text) - 11, Len(text))
    ELSE NoMatch

\* line.match(/([a-f0-9]{12}):\s+(Preparing|Waiting|Layer already exists)/)
PreparingMatch(line) ==
    IF line.status \in {"Preparing", "Waiting", "Layer already exists"}
    THEN MatchLayerId(line.id)
    ELSE NoMatch

\* \[([=>\s]+)\]
BarMatch(bar) == Len(bar) >= 1 /\ \A i \in 1..Len(bar) : bar[i] \in BarChars

\* ([\d.]+)([KMG]B)
SizeUnitMatch(unit) == unit \in {"KB", "MB", "GB"}

\* line.match(/([a-f0-9]{12}):\s+Pushing\s+\[([=>\s]+)\]\s+([\d.]+)([KMG]B)\/([\d.]+)([KMG]B)/)
PushingMatch(line) ==
    IF /\ line.status = "Pushing"
       /\ BarMatch(line.progress.bar)
       /\ SizeUnitMatch(line.progress.curUnit)
       /\ SizeUnitMatch(line.progress.totUnit)
    THEN MatchLayerId(line.id)
    ELSE NoMatch

\* line.match(/([a-f0-9]{12}):\s+(Pushed|Layer already exists)/)
PushedMatch(line) ==
    IF line.status \in {"Pushed", "Layer already exists"}
    THEN MatchLayerId(line.id)
    ELSE NoMatch

\* initialScanDone is declared false and never assigned.
initialScanDone == FALSE

---------------------------------------------------------------------------
(* The per-line body of the stdout handler, as a reducer on the session    *)
(* [layers, totalLayers, completedLayers].                                 *)

Session(l, t, c) == [layers |-> l, totalLayers |-> t, completedLayers |-> c]

Known(l, id) == id \in DOMAIN l

Put(l, id, rec) ==
    [x \in DOMAIN l \cup {id} |-> IF x = id THEN rec ELSE l[x]]

LayerRec(t, c, done, st) ==
    [total |-> t, current |-> c, completed |-> done, status |-> st]

\* if (preparingMatch && !initialScanDone) { ... }
ApplyPreparing(s, line) ==
    LET id == PreparingMatch(line) IN
    IF id # NoMatch /\ ~initialScanDone /\ ~Known(s.layers, id)
    THEN Session(Put(s.layers, id, LayerRec(0, 0, FALSE, "preparing")),
                 s.totalLayers + 1, s.completedLayers)
    ELSE s

\* The status a pushing line leaves on a layer that is already known.
PushingStatus(layer) == "pushing"

\* if (pushingMatch) { ... }
ApplyPushing(s, line) ==
    LET id == PushingMatch(line)
        currentBytes == ConvertToBytes(ParseFloat(line.progress.cur),
                                       line.progress.curUnit)
        totalBytes == ConvertToBytes(ParseFloat(line.progress.tot),
                                     line.progress.totUnit)
    IN
    IF id = NoMatch THEN s
    ELSE IF ~Known(s.layers, id)
    THEN Session(Put(s.layers, id,
                     LayerRec(totalBytes, currentBytes, FALSE, "pushing")),
                 s.totalLayers + 1, s.completedLayers)
    ELSE Session(Put(s.layers, id,
                     LayerRec(totalBytes, currentBytes,
                              s.layers[id].completed,
                              PushingStatus(s.layers[id]))),
                 s.totalLayers, s.completedLayers)

\* ApplyPushed with a repeated terminal line counted again.
ApplyPushedRecounts(s, line) ==
    LET id == PushedMatch(line) IN
    IF id = NoMatch THEN s
    ELSE IF ~Known(s.layers, id)
    THEN Session(Put(s.layers, id, LayerRec(0, 0, TRUE, "complete")),
                 s.totalLayers + 1, s.completedLayers + 1)
    ELSE Session(Put(s.layers, id,
                     LayerRec(s.layers[id].total,
                              IF s.layers[id].total > 0
                              THEN s.layers[id].total
                              ELSE s.layers[id].current,
                              TRUE, "complete")),
                 s.totalLayers, s.completedLayers + 1)

\* if (pushedMatch) { ... }
ApplyPushed(s, line) ==
    LET id == PushedMatch(line) IN
    IF id = NoMatch THEN s
    ELSE IF ~Known(s.layers, id)
    THEN Session(Put(s.layers, id, LayerRec(0, 0, TRUE, "complete")),
                 s.totalLayers + 1, s.completedLayers + 1)
    ELSE IF ~s.layers[id].completed
    THEN Session(Put(s.layers, id,
                     LayerRec(s.layers[id].total,
                              IF s.layers[id].total > 0
                              THEN s.layers[id].total
                              ELSE s.layers[id].current,
                              TRUE, "complete")),
                 s.totalLayers, s.completedLayers + 1)
    ELSE s

\* The three matches of one line, in the order of the handler.
ProcessLine(s, line) == ApplyPushed(ApplyPushing(ApplyPreparing(s, line), line), line)

RECURSIVE SumOver(_, _, _)
\* Sum of field f over the layers of l in ids that have total > 0.
SumOver(l, ids, f) ==
    IF ids = {} THEN 0
    ELSE LET id == CHOOSE x \in ids : TRUE
             rest == SumOver(l, ids \ {id}, f)
         IN IF l[id].total > 0 THEN l[id][f] + rest ELSE rest

RECURSIVE Gcd(_, _)
Gcd(a, b) == IF b = 0 THEN a ELSE Gcd(b, a % b)

\* Math.round(x) of the non-negative quotient num / den.
Round(num, den) == (2 * num + den) \div (2 * den)

\* Math.round((part / whole) * 100), whole > 0.  The fraction is reduced
\* first, which leaves the quotient unchanged and the products small.
RoundPercent(part, whole) ==
    LET g == Gcd(whole, part) IN Round(100 * (part \div g), whole \div g)

\* overallPercent taken from the layer counts alone.
OverallPercentByCount(s) ==
    IF s.totalLayers > 0
    THEN RoundPercent(s.completedLayers, s.totalLayers)
    ELSE 0

\* overallPercent of the progress calculation.
OverallPercent(s) ==
    LET totalBytes == SumOver(s.layers, DOMAIN s.layers, "total")
        uploadedBytes == SumOver(s.layers, DOMAIN s.layers, "current")
    IN IF totalBytes > 0 THEN RoundPercent(uploadedBytes, totalBytes)
       ELSE IF s.totalLayers > 0
       THEN RoundPercent(s.completedLayers, s.totalLayers)
       ELSE 0

Event(p, c, t) == [percent |-> p, completed |-> c, total |-> t]

NoEvent == [percent |-> -1, completed |-> -1, total |-> -1]

\* The triple the handler passes to onProgress after a line, or NoEvent.
\* onProgress is always given (pushImageToECR passes its callback; a direct
\* caller is taken to pass one).
ProgressAfter(s) ==
    IF s.totalLayers > 0
    THEN Event(OverallPercent(s), s.completedLayers, s.totalLayers)
    ELSE NoEvent

\* pushImageToECR's callback: the new lastPercent after an event.
Render(last, ev) ==
    IF ev.percent > last \/ ev.percent = 100 THEN ev.percent ELSE last

\* const barLength = 30
barLength == 30

\* Math.floor((percent / 100) * barLength)
FilledLength(percent) == (percent * barLength) \div 100

\* Whether the callback throws: inside its if, after lastPercent is
\* assigned, String.prototype.repeat is given barLength - filledLength and
\* throws a RangeError for a negative count.
RenderThrows(last, ev) ==
    /\ ev.percent > last \/ ev.percent = 100
    /\ barLength - FilledLength(ev.percent) < 0


---------------------------------------------------------------------------
(* Inputs: the lines the push subprocess may print, the chunks of its      *)
(* error stream, and the HTTP responses of the API.                        *)

IdA == <<"a", "1", "b", "2", "c", "3", "d", "4", "e", "5", "f", "6">>
IdB == <<"0", "f", "1", "e", "2", "d", "3", "c", "4", "b", "5", "a">>
\* "abc123", the id the handler's comments use: six characters.
IdShort == <<"a", "b", "c", "1", "2", "3">>

LayerIds == {IdA, IdB}

Progress(b, c, cu, t, tu) ==
    [bar |-> b, cur |-> c, curUnit |-> cu, tot |-> t, totUnit |-> tu]

NoProgress == Progress(<<>>, Dec(0, 0), "", Dec(0, 0), "")

Bar == <<"=", "=", ">", " ">>

\* 10MB/50MB, 50MB/50MB and 60MB/50MB
Progresses == {Progress(Bar, Dec(c, 0), "MB", Dec(50, 0), "MB") : c \in {10, 50, 60}}

Line(id, st, p) == [id |-> id, status |-> st, progress |-> p]

\* The empty line a chunk ending in a newline splits off.
EmptyLine == Line(<<>>, "", NoProgress)

Lines ==
    {Line(id, st, NoProgress) :
        id \in LayerIds,
        st \in {"Preparing", "Waiting", "Layer already exists", "Pushed"}}
    \cup {Line(id, "Pushing", p) : id \in LayerIds, p \in Progresses}
    \cup {Line(IdShort, "Pushed", NoProgress),
          Line(IdShort, "Preparing", NoProgress),
          Line(IdA, "Mounted", NoProgress),
          EmptyLine}

---------------------------------------------------------------------------
(* A line of text as the three patterns of the stdout handler read it.     *)

\* The text of each status the patterns know.
StatusText(st) ==
    CASE st = "Preparing" -> <<"P", "r", "e", "p", "a", "r", "i", "n", "g">>
      [] st = "Waiting" -> <<"W", "a", "i", "t", "i", "n", "g">>
      [] st = "Pushing" -> <<"P", "u", "s", "h", "i", "n", "g">>
      [] st = "Pushed" -> <<"P", "u", "s", "h", "e", "d">>
      [] st = "Layer already exists" ->
            <<"L", "a", "y", "e", "r", " ", "a", "l", "r", "e", "a", "d", "y", " ", "e", "x", "i", "s", "t", "s">>

Statuses == {"Preparing", "Waiting", "Pushing", "Pushed", "Layer already exists"}

Digits == <<"0", "1", "2", "3", "4", "5", "6", "7", "8", "9">>
DigitSet == {Digits[i] : i \in 1..10}
DigitValue(c) == (CHOOSE i \in 1..10 : Digits[i] = c) - 1

UnitText(unit) ==
    CASE unit = "B" -> <<"B">>
      [] unit = "KB" -> <<"K", "B">>
      [] unit = "MB" -> <<"M", "B">>
      [] unit = "GB" -> <<"G", "B">>

RECURSIVE ToNumber(_)
\* The value of a run of digits.
ToNumber(ds) ==
    IF ds = <<>> THEN 0
    ELSE 10 * ToNumber(SubSeq(ds, 1, Len(ds) - 1)) + DigitValue(ds[Len(ds)])

\* parseFloat of a text matched by [\d.]+, to one fractional digit: the
\* leading digits, then a point and the digit after it if they follow.
ParseFloatText(lit) ==
    LET n == RunLength(lit, 1, DigitSet)
        whole == ToNumber(SubSeq(lit, 1, n))
    IN IF n + 2 <= Len(lit) /\ lit[n + 1] = "." /\ lit[n + 2] \in DigitSet
       THEN Dec(whole, DigitValue(lit[n + 2]))
       ELSE Dec(whole, 0)

\* ([a-f0-9]{12}):\s+ at position i.
IdAt(t, i) ==
    /\ i + 13 <= Len(t)
    /\ \A k \in i..(i + 11) : t[k] \in HexChars
    /\ t[i + 12] = ":"
    /\ t[i + 13] \in Whitespace

\* The position after the white space that starts at j.
AfterSpaces(t, j) == j + RunLength(t, j, Whitespace)

\* The status that follows the id at position i and its white space.
StatusAt(t, i) ==
    LET j == AfterSpaces(t, i + 13)
        found == {st \in Statuses : LitAt(t, j, StatusText(st))}
    IN IF found = {} THEN "" ELSE CHOOSE st \in found : TRUE

\* ([\d.]+)([KMG]B) at position j: the literal and the unit, or NoMatch.
SizeAt(t, j) ==
    LET n == RunLength(t, j, DigitSet \cup {"."})
        u == j + n
    IN IF n >= 1 /\ u + 1 <= Len(t) /\ t[u] \in {"K", "M", "G"} /\ t[u + 1] = "B"
       THEN [lit |-> SubSeq(t, j, u - 1), unit |-> t[u] \o "B", next |-> u + 2]
       ELSE NoMatch

\* \s+\[([=>\s]+)\]\s+([\d.]+)([KMG]B)\/([\d.]+)([KMG]B) at position j, the
\* position after "Pushing": the progress it captures, or NoProgress.
ProgressAt(t, j) ==
    LET open == AfterSpaces(t, j)
        bar == RunLength(t, open + 1, {"=", ">"} \cup Whitespace)
        close == open + 1 + bar
        cur == SizeAt(t, AfterSpaces(t, close + 1))
        tot == IF cur = NoMatch THEN NoMatch ELSE SizeAt(t, cur.next + 1)
    IN IF /\ open > j /\ open <= Len(t) /\ t[open] = "["
          /\ bar >= 1 /\ close <= Len(t) /\ t[close] = "]"
          /\ AfterSpaces(t, close + 1) > close + 1
          /\ cur # NoMatch
          /\ cur.next <= Len(t) /\ t[cur.next] = "/"
          /\ tot # NoMatch
       THEN Progress(SubSeq(t, open + 1, close - 1),
                     ParseFloatText(cur.lit), cur.unit,
                     ParseFloatText(tot.lit), tot.unit)
       ELSE NoProgress

\* What the patterns find in a line of text: the id, the status and the
\* progress of the leftmost "<id>: <status>" in it, or nothing.  (A line
\* holds one such place at most in the texts used.)
Scan(t) ==
    LET places == {i \in 1..Len(t) : IdAt(t, i) /\ StatusAt(t, i) # ""}
        i == CHOOSE p \in places : \A q \in places : p <= q
        st == StatusAt(t, i)
    IN IF places = {} THEN EmptyLine
       ELSE Line(SubSeq(t, i, i + 11), st,
                 IF st = "Pushing"
                 THEN ProgressAt(t, AfterSpaces(t, i + 13) + Len(StatusText(st)))
                 ELSE NoProgress)

RECURSIVE DigitsOf(_)
DigitsOf(n) ==
    IF n < 10 THEN <<Digits[n + 1]>>
    ELSE DigitsOf(n \div 10) \o <<Digits[(n % 10) + 1]>>

\* The text of a size literal.
DecText(d) ==
    DigitsOf(d.int) \o (IF d.frac = 0 THEN <<>> ELSE <<".", Digits[d.frac + 1]>>)

\* The text of a line of the subprocess, with its newline.
LineText(line) ==
    line.id \o <<":", " ">> \o StatusText(line.status)
    \o (IF line.status = "Pushing"
        THEN <<" ", "[">> \o line.progress.bar \o <<"]", " ">>
             \o DecText(line.progress.cur) \o UnitText(line.progress.curUnit)
             \o <<"/">>
             \o DecText(line.progress.tot) \o UnitText(line.progress.totUnit)
        ELSE <<>>)
    \o <<"\n">>

\* "layer1"
Layer1 == <<"l", "a", "y", "e", "r", "1">>

\* The output of a push of one layer: Preparing, Pushing 10MB/50MB,
\* Pushing 50MB/50MB, Pushed.
OneLayerPush(id) ==
    LineText(Line(id, "Preparing", NoProgress))
    \o LineText(Line(id, "Pushing",
                     Progress(<<"=", "=", "=", ">">>, Dec(10, 0), "MB", Dec(50, 0), "MB")))
    \o LineText(Line(id, "Pushing",
                     Progress(<<"=", "=", "=", "=", "=", ">">>, Dec(50, 0), "MB", Dec(50, 0), "MB")))
    \o LineText(Line(id, "Pushed", NoProgress))

\* The output of a push that reports more bytes sent than the layer's
\* size, as docker does for a compressed layer: Pushing 51MB/50MB, Pushed.
OverrunPush(id) ==
    LineText(Line(id, "Pushing",
                  Progress(<<"=", "=", "=", "=", "=", ">">>, Dec(51, 0), "MB", Dec(50, 0), "MB")))
    \o LineText(Line(id, "Pushed", NoProgress))

\* The texts a scripted push writes.
Outputs ==
    {OneLayerPush(Layer1), OneLayerPush(IdA), OverrunPush(IdA),
     LineText(Line(IdA, "Preparing", NoProgress))
        \o LineText(Line(IdB, "Layer already exists", NoProgress))
        \o LineText(Line(IdA, "Pushed", NoProgress))}

\* Error-stream chunks.
\* "unauthorized: authentication required"
Unauthorized ==
    <<"u", "n", "a", "u", "t", "h", "o", "r", "i", "z", "e", "d", ":", " ",
      "a", "u", "t", "h", "e", "n", "t", "i", "c", "a", "t", "i", "o", "n",
      " ", "r", "e", "q", "u", "i", "r", "e", "d">>
\* "retrying in 5 seconds"
Notice ==
    <<"r", "e", "t", "r", "y", "i", "n", "g", " ", "i", "n", " ", "5", " ",
      "s", "e", "c", "o", "n", "d", "s">>
\* "ERROR: Access Denied"
AccessDenied ==
    <<"E", "R", "R", "O", "R", ":", " ", "A", "c", "c", "e", "s", "s", " ",
      "D", "e", "n", "i", "e", "d">>

\* The chunks the runs below receive.
StderrChunks == {Unauthorized, Notice}

\* Chunks the handler's condition is evaluated on.
StderrSamples == {Unauthorized, Notice, AccessDenied}

\* The condition of the stderr handler.
LooksLikeError(chunk) ==
    \/ Includes(ToLowerCase(chunk), <<"e", "r", "r", "o", "r">>)
    \/ Includes(ToLowerCase(chunk), <<"d", "e", "n", "i", "e", "d">>)
    \/ Includes(ToLowerCase(chunk),
                <<"u", "n", "a", "u", "t", "h", "o", "r", "i", "z", "e", "d">>)

Undefined == "undefined"

\* JavaScript's !v for a string or a missing property.
Falsy(v) == v \in {Undefined, ""}

Body(ecr, repo) ==
    [ecr_url |-> ecr, repository_uri |-> repo, deployment_id |-> "dep-1"]

NoBody == Body(Undefined, Undefined)

Bodies == {Body("registry.example", "registry.example/repo"),
           Body("x", Undefined),
           Body(Undefined, "registry.example/repo"),
           Body("", "registry.example/repo")}

\* A response: a transport failure, or a status with a body that is JSON or not.
Response(k, st, js, b) == [kind |-> k, status |-> st, json |-> js, body |-> b]

Responses ==
    {Response("transport", 0, FALSE, NoBody)}
    \cup {Response("http", st, TRUE, b) : st \in {200, 201, 500}, b \in Bodies}
    \cup {Response("http", st, FALSE, NoBody) : st \in {200, 502}}

Resolved(v) == [ok |-> TRUE, value |-> v, statusCode |-> 0]
Rejected(code) == [ok |-> FALSE, value |-> NoBody, statusCode |-> code]
\* reject({ statusCode: res.statusCode, response })
RejectedWith(code, response) ==
    [ok |-> FALSE, value |-> response, statusCode |-> code]

\* makeApiRequest: how the promise settles for a response.
MakeApiRequest(resp) ==
    IF resp.kind = "transport" THEN Rejected(0)
    ELSE IF ~resp.json THEN Rejected(0)
    ELSE IF resp.status >= 200 /\ resp.status < 300 THEN Resolved(resp.body)
    ELSE RejectedWith(resp.status, resp.body)

\* `${repositoryUri}:latest`
RemoteTag(repositoryUri) == <<repositoryUri, ":latest">>

NoError == [kind |-> "none", attempt |-> 0, detail |-> <<>>]
Error(k, a, d) == [kind |-> k, attempt |-> a, detail |-> d]

Min(a, b) == IF a <= b THEN a ELSE b

RECURSIVE Pow2(_)
Pow2(n) == IF n <= 0 THEN 1 ELSE 2 * Pow2(n - 1)

\* WaitTime without the ceiling.
WaitTimeUncapped(a) == BACKOFF_BASE_MS * Pow2(a - 1)

\* Math.min(1000 * Math.pow(2, attempt - 1), 5000)
WaitTime(a) == Min(BACKOFF_BASE_MS * Pow2(a - 1), BACKOFF_CAP_MS)


---------------------------------------------------------------------------
(* lambdaDeploy's environment variables: the env file, then the flags.     *)

\* if ((value.startsWith('"') && value.endsWith('"')) || ... ) value.slice(1, -1)
Unquote(value) ==
    IF \/ StartsWith(value, "\"") /\ EndsWith(value, "\"")
       \/ StartsWith(value, "'") /\ EndsWith(value, "'")
    THEN SubSeq(value, 2, Len(value) - 1)
    ELSE value

\* The body of envFileContent.split('\n').forEach.
ParseEnvLine(env, rawLine) ==
    LET line == Trim(rawLine)
        parts == Split(line, "=")
        key == parts[1]
        valueParts == Tail(parts)
    IN IF line = <<>> \/ StartsWith(line, "#") THEN env
       ELSE IF key # <<>> /\ Len(valueParts) > 0
       THEN Put(env, Trim(key), Unquote(Trim(Join(valueParts, "="))))
       ELSE env

\* ParseEnvFlag with a key that the env file has set left as it is.
ParseEnvFlagKeepsFirst(env, envStr) ==
    LET parts == Split(envStr, "=")
        key == parts[1]
        valueParts == Tail(parts)
    IN IF key # <<>> /\ Len(valueParts) > 0 /\ ~Known(env, Trim(key))
       THEN Put(env, Trim(key), Trim(Join(valueParts, "=")))
       ELSE env

\* The body of options.env.forEach.
ParseEnvFlag(env, envStr) ==
    LET parts == Split(envStr, "=")
        key == parts[1]
        valueParts == Tail(parts)
    IN IF key # <<>> /\ Len(valueParts) > 0
       THEN Put(env, Trim(key), Trim(Join(valueParts, "=")))
       ELSE env

RECURSIVE ParseEnvLines(_, _)
ParseEnvLines(env, lines) ==
    IF lines = <<>> THEN env
    ELSE ParseEnvLines(ParseEnvLine(env, Head(lines)), Tail(lines))

RECURSIVE ParseEnvFlags(_, _)
ParseEnvFlags(env, flags) ==
    IF flags = <<>> THEN env
    ELSE ParseEnvFlags(ParseEnvFlag(env, Head(flags)), Tail(flags))

\* environmentVars after both blocks, for an env file that can be read.
EnvironmentVars(opts, file) ==
    LET fromFile == IF opts.envFile
                    THEN ParseEnvLines(<<>>, Split(file.text, "\n"))
                    ELSE <<>>
    IN ParseEnvFlags(fromFile, opts.env)

\* The options and the env file of a run.
Options(envFile, env) == [envFile |-> envFile, env |-> env]
EnvFile(exists, text) == [exists |-> exists, text |-> text]

\* The body of the credentials request, of which the model keeps
\* environment_vars.
CredentialsRequest(env) == [sent |-> TRUE, environment_vars |-> env]

NoRequest == [sent |-> FALSE, environment_vars |-> <<>>]

NoOptions == Options(FALSE, <<>>)
NoEnvFile == EnvFile(FALSE, <<>>)

\* Env inputs.  An entry is the text of one env-file line or of one --env
\* flag, with the key and the value it stands for; given is FALSE for a
\* line that sets nothing.
Entry(text, key, value, given) ==
    [text |-> text, key |-> key, value |-> value, given |-> given]

\* KEY=VALUE
Assignment(key, value) == Entry(key \o <<"=">> \o value, key, value, TRUE)

\* KEY="VALUE", as an env file may write it.
QuotedAssignment(key, value) ==
    Entry(key \o <<"=", "\"">> \o value \o <<"\"">>, key, value, TRUE)

\* # KEY=VALUE
CommentLine(key, value) ==
    Entry(<<"#", " ">> \o key \o <<"=">> \o value, key, value, FALSE)

\* FOO=1, BAR=2, foo="3" and the comment # FOO=5
FileEntries ==
    {Assignment(<<"F", "O", "O">>, <<"1">>),
     Assignment(<<"B", "A", "R">>, <<"2">>),
     QuotedAssignment(<<"f", "o", "o">>, <<"3">>),
     CommentLine(<<"F", "O", "O">>, <<"5">>)}

\* FOO=9, FOO=7, foo=7 and BAR=a=b
FlagEntries ==
    {Assignment(<<"F", "O", "O">>, <<"9">>),
     Assignment(<<"F", "O", "O">>, <<"7">>),
     Assignment(<<"f", "o", "o">>, <<"7">>),
     Assignment(<<"B", "A", "R">>, <<"a", "=", "b">>)}

MaxEntries == 2

SeqsUpTo(S, n) == UNION {[1..k -> S] : k \in 0..n}

Texts(entries) == [i \in 1..Len(entries) |-> entries[i].text]

\* The env file holding the entries, one per line.
EnvFileOf(entries) == EnvFile(TRUE, Join(Texts(entries), "\n"))

---------------------------------------------------------------------------
(* Initial states. *)

LoginIdle ==
    /\ retries = 0
    /\ attempt = 0
    /\ loginProcs = <<>>
    /\ timeoutId = "none"
    /\ elapsed = 0
    /\ attemptPromise = "none"
    /\ loginResult = "none"
    /\ loginError = NoError
    /\ waits = <<>>

\* dockerLogin up to the first await: attempt 1 is spawned, its timer set.
LoginCalled(n) ==
    /\ retries = n
    /\ attempt = 1
    /\ loginProcs = <<"running">>
    /\ timeoutId = "armed"
    /\ elapsed = 0
    /\ attemptPromise = "pending"
    /\ loginResult = "pending"
    /\ loginError = NoError
    /\ waits = <<>>

PushIdle ==
    /\ layers = <<>>
    /\ totalLayers = 0
    /\ completedLayers = 0
    /\ now = 0
    /\ lastOutput = 0
    /\ hasError = FALSE
    /\ errorMessage = <<>>
    /\ timeoutCheck = "none"
    /\ pushProcess = "none"
    /\ pushExitCode = -1
    /\ chunkAt = 0
    /\ pushPromise = "none"
    /\ pushError = NoError
    /\ lastEvent = NoEvent
    /\ lastPercent = 0

\* dockerPush up to its return: the subprocess is spawned, the interval set.
PushCalled ==
    /\ layers = <<>>
    /\ totalLayers = 0
    /\ completedLayers = 0
    /\ now = 0
    /\ lastOutput = 0
    /\ hasError = FALSE
    /\ errorMessage = <<>>
    /\ timeoutCheck = "active"
    /\ pushProcess = "running"
    /\ pushExitCode = -1
    /\ chunkAt = 0
    /\ pushPromise = "pending"
    /\ pushError = NoError
    /\ lastEvent = NoEvent
    /\ lastPercent = 0

\* lambdaDeploy is called: nothing has run yet.
DeployCalled ==
    /\ entry = "lambdaDeploy"
    /\ pc = "start"
    /\ failedAt = "none"
    /\ exitCode = -1
    /\ calls = {}
    /\ deploymentRequest = NoBody
    /\ confirmBody = <<>>
    /\ tagResult = "none"
    /\ environmentVars = <<>>
    /\ requestBody = NoRequest
    /\ LoginIdle
    /\ PushIdle

\* lambdaDeploy runs without env flags, with no env file asked for or with
\* one that is missing; the subprocess's output is left open.
Init ==
    /\ output = <<>> /\ pending = <<>>
    /\ argument = <<>>
    /\ httpRequest = [method |-> "", path |-> <<>>]
    /\ \/ /\ DeployCalled
          /\ envFileOnDisk = NoEnvFile
          /\ options \in {NoOptions, Options(TRUE, <<>>)}
       \/ /\ entry \in {"dockerLogin", "dockerPush"}
          /\ failedAt = "none"
          /\ exitCode = -1
          /\ deploymentRequest = NoBody
          /\ confirmBody = <<>>
          /\ tagResult = "none"
          /\ environmentVars = <<>>
          /\ requestBody = NoRequest
          /\ options = NoOptions
          /\ envFileOnDisk = NoEnvFile
          /\ \/ /\ entry = "dockerLogin"
                /\ pc = "login"
                /\ calls = {"login"}
                /\ \E n \in 1..MaxRetries : LoginCalled(n)
                /\ PushIdle
             \/ /\ entry = "dockerPush"
                /\ pc = "push"
                /\ calls = {"push"}
                /\ LoginIdle
                /\ PushCalled

\* The same two calls made during a run: LoginCalled and PushCalled of the
\* next state.
StartLogin(n) ==
    /\ retries' = n
    /\ attempt' = 1
    /\ loginProcs' = <<"running">>
    /\ timeoutId' = "armed"
    /\ elapsed' = 0
    /\ attemptPromise' = "pending"
    /\ loginResult' = "pending"
    /\ loginError' = NoError
    /\ waits' = <<>>

StartPush ==
    /\ layers' = <<>>
    /\ totalLayers' = 0
    /\ completedLayers' = 0
    /\ now' = 0
    /\ lastOutput' = 0
    /\ hasError' = FALSE
    /\ errorMessage' = <<>>
    /\ timeoutCheck' = "active"
    /\ pushProcess' = "running"
    /\ pushExitCode' = -1
    /\ chunkAt' = 0
    /\ pushPromise' = "pending"
    /\ pushError' = NoError
    /\ lastEvent' = NoEvent
    /\ lastPercent' = 0

---------------------------------------------------------------------------
(* lambdaDeploy. *)

\* process.exit(1) at a failed stage.
Exit1(stage) ==
    /\ pc' = "exited"
    /\ exitCode' = 1
    /\ failedAt' = stage

\* lambdaDeploy up to its first await: requireAuth, the --image check and
\* the reading of the env file.
LambdaDeployStart ==
    /\ entry = "lambdaDeploy" /\ pc = "start"
    /\ \E credentials \in BOOLEAN, image \in BOOLEAN :
          IF ~credentials
          THEN Exit1("requireAuth") /\ UNCHANGED environmentVars
          ELSE IF ~image
          THEN Exit1("image") /\ UNCHANGED environmentVars
          ELSE IF options.envFile /\ ~envFileOnDisk.exists
          THEN Exit1("envFile") /\ UNCHANGED environmentVars
          ELSE /\ pc' = "checkDockerInstalled"
               /\ environmentVars' = EnvironmentVars(options, envFileOnDisk)
               /\ UNCHANGED <<failedAt, exitCode>>
    /\ UNCHANGED <<entry, inputVars, httpRequest, requestBody, pending, tagResult, calls,
                   deployVars, loginVars, pushVars>>

\* Step 1: the callback of exec('docker --version').
CheckDockerInstalledDone ==
    /\ entry = "lambdaDeploy" /\ pc = "checkDockerInstalled"
    /\ \E error \in BOOLEAN :
          IF error THEN Exit1("checkDockerInstalled")
          ELSE /\ pc' = "checkDockerImage"
               /\ UNCHANGED <<failedAt, exitCode>>
    /\ UNCHANGED <<entry, inputVars, httpRequest, envVars, pending, tagResult, calls, deployVars, loginVars, pushVars>>

\* CheckDockerImageDone with the credentials request sent before the
\* result is looked at.
CheckDockerImageDoneLate ==
    /\ entry = "lambdaDeploy" /\ pc = "checkDockerImage"
    /\ \E result \in {"error", "empty", "found"} :
          IF result = "error" THEN Exit1("checkDockerImage") /\ UNCHANGED calls
          ELSE IF result = "empty"
          THEN Exit1("imageNotFound") /\ calls' = calls \cup {"credentials"}
          ELSE /\ pc' = "getImageSize"
               /\ UNCHANGED <<failedAt, exitCode, calls>>
    /\ UNCHANGED <<entry, inputVars, httpRequest, envVars, pending, tagResult, deployVars, loginVars, pushVars>>

\* Step 2: the callback of exec('docker images -q <image>').
CheckDockerImageDone ==
    /\ entry = "lambdaDeploy" /\ pc = "checkDockerImage"
    /\ \E result \in {"error", "empty", "found"} :
          IF result = "error" THEN Exit1("checkDockerImage")
          ELSE IF result = "empty" THEN Exit1("imageNotFound")
          ELSE /\ pc' = "getImageSize"
               /\ UNCHANGED <<failedAt, exitCode>>
    /\ UNCHANGED <<entry, inputVars, httpRequest, envVars, pending, tagResult, calls, deployVars, loginVars, pushVars>>

\* Step 2, getImageSize, then step 3: the credentials request is sent.
GetImageSizeDone ==
    /\ entry = "lambdaDeploy" /\ pc = "getImageSize"
    /\ \E error \in BOOLEAN :
          IF error
          THEN Exit1("getImageSize") /\ UNCHANGED <<calls, requestBody>>
          ELSE /\ pc' = "credentials"
               /\ calls' = calls \cup {"credentials"}
               /\ requestBody' = CredentialsRequest(environmentVars)
               /\ UNCHANGED <<failedAt, exitCode>>
    /\ UNCHANGED <<entry, inputVars, httpRequest, environmentVars, pending, tagResult,
                   deployVars, loginVars, pushVars>>

\* ResponseComplete looking at ecr_url alone.
ResponseCompleteEcrOnly(body) == ~Falsy(body.ecr_url)

\* The check of the credentials response before pushImageToECR.
ResponseComplete(body) ==
    ~(Falsy(body.ecr_url) \/ Falsy(body.repository_uri))

\* The credentials request settles; on a complete response pushImageToECR
\* starts and dockerLogin spawns its first attempt.
CredentialsResponse ==
    /\ entry = "lambdaDeploy" /\ pc = "credentials"
    /\ \E resp \in Responses :
          LET r == MakeApiRequest(resp) IN
          IF ~r.ok
          THEN Exit1("credentials") /\ UNCHANGED <<calls, deployVars, loginVars>>
          ELSE IF ~ResponseComplete(r.value)
          THEN /\ Exit1("invalidResponse")
               /\ deploymentRequest' = r.value
               /\ UNCHANGED <<calls, confirmBody, loginVars>>
          ELSE /\ deploymentRequest' = r.value
               /\ pc' = "login"
               /\ calls' = calls \cup {"login"}
               /\ StartLogin(ECR_LOGIN_RETRIES)
               /\ UNCHANGED <<failedAt, exitCode, confirmBody>>
    /\ UNCHANGED <<entry, inputVars, httpRequest, envVars, pending, tagResult, pushVars>>

\* TagDone that goes on to the push whether or not docker tag failed.
TagDoneUnchecked ==
    /\ entry = "lambdaDeploy" /\ pc = "tag"
    /\ \E error \in BOOLEAN :
          /\ tagResult' = IF error THEN "rejected" ELSE "resolved"
          /\ pc' = "push"
          /\ calls' = calls \cup {"push"}
          /\ StartPush
          /\ UNCHANGED <<failedAt, exitCode>>
    /\ UNCHANGED <<entry, inputVars, httpRequest, envVars, pending, deployVars, loginVars>>

\* The callback of exec('docker tag ...'); on success dockerPush is called.
TagDone ==
    /\ entry = "lambdaDeploy" /\ pc = "tag"
    /\ \E error \in BOOLEAN :
          IF error
          THEN /\ tagResult' = "rejected"
               /\ Exit1("tag")
               /\ UNCHANGED <<calls, pushVars>>
          ELSE /\ tagResult' = "resolved"
               /\ pc' = "push"
               /\ calls' = calls \cup {"push"}
               /\ StartPush
               /\ UNCHANGED <<failedAt, exitCode>>
    /\ UNCHANGED <<entry, inputVars, httpRequest, envVars, pending, deployVars, loginVars>>

\* Step 7: the confirm request settles.
ConfirmResponse ==
    /\ entry = "lambdaDeploy" /\ pc = "confirm"
    /\ \E resp \in Responses :
          IF ~MakeApiRequest(resp).ok THEN Exit1("confirm")
          ELSE /\ pc' = "done"
               /\ UNCHANGED <<failedAt, exitCode>>
    /\ UNCHANGED <<entry, inputVars, httpRequest, envVars, pending, tagResult, calls, deployVars, loginVars, pushVars>>


---------------------------------------------------------------------------
(* dockerLogin. *)

InLogin == exitCode = -1 /\ pc \in {"login", "backoff"}

SetProc(procs, k, st) == [procs EXCEPT ![k] = st]

\* The attempt's promise resolves and dockerLogin returns: its locals are
\* dead.  pushImageToECR goes on to dockerTag; a direct caller has its result.
LoginResolves ==
    /\ loginResult' = "resolved"
    /\ loginError' = NoError
    /\ IF entry = "lambdaDeploy"
       THEN /\ pc' = "tag"
            /\ calls' = calls \cup {"tag"}
            /\ tagResult' = "pending"
            /\ retries' = 0
            /\ attempt' = 0
            /\ loginProcs' = <<>>
            /\ timeoutId' = "none"
            /\ elapsed' = 0
            /\ attemptPromise' = "none"
            /\ waits' = <<>>
       ELSE /\ pc' = "returned"
            /\ loginProcs' = SetProc(loginProcs, attempt, "exited")
            /\ timeoutId' = "cleared"
            /\ attemptPromise' = "resolved"
            /\ UNCHANGED <<calls, retries, attempt, elapsed, waits, tagResult>>
    /\ UNCHANGED <<failedAt, exitCode>>

\* LastAttempt giving up one attempt early.
LastAttemptEarly(a, n) == a >= n - 1

\* Whether the catch block rethrows: if (attempt === retries) throw error.
LastAttempt(a, n) == a = n

\* The catch block of the retry loop after the attempt's promise rejected.
AttemptRejected(err) ==
    IF LastAttempt(attempt, retries)
    THEN /\ loginResult' = "rejected"
         /\ loginError' = err
         /\ waits' = waits
         /\ IF entry = "lambdaDeploy"
            THEN Exit1("login")
            ELSE pc' = "returned" /\ UNCHANGED <<failedAt, exitCode>>
    ELSE /\ pc' = "backoff"
         /\ waits' = Append(waits, WaitTime(attempt))
         /\ UNCHANGED <<loginResult, loginError, failedAt, exitCode>>

\* Time passes while the attempt is pending.  A timer that is set fires
\* when it is due, so time does not pass its deadline while it is armed.
LoginElapse ==
    /\ InLogin /\ pc = "login" /\ attemptPromise = "pending"
    /\ \E d \in {TIMEOUT_MS \div 2} :
          /\ timeoutId = "armed" => elapsed + d <= TIMEOUT_MS
          /\ elapsed + d <= 2 * TIMEOUT_MS
          /\ elapsed' = elapsed + d
    /\ UNCHANGED <<entry, inputVars, httpRequest, envVars, pending, tagResult, pc, failedAt, exitCode, calls, deployVars, retries,
                   attempt, loginProcs, timeoutId, attemptPromise, loginResult,
                   loginError, waits, pushVars>>

\* loginProcess.on('close') of the current attempt.
LoginClose ==
    /\ InLogin /\ pc = "login"
    /\ loginProcs[attempt] = "running"
    /\ attemptPromise = "pending"
    /\ \E code \in {0, 1} :
          IF code = 0
          THEN LoginResolves
          ELSE /\ timeoutId' = "cleared"
               /\ loginProcs' = SetProc(loginProcs, attempt, "exited")
               /\ attemptPromise' = "rejected"
               /\ AttemptRejected(Error("failed", attempt, <<>>))
               /\ UNCHANGED <<calls, retries, attempt, elapsed, tagResult>>
    /\ UNCHANGED <<entry, inputVars, httpRequest, envVars, pending, deployVars, pushVars>>

\* LoginSpawnError with the attempt's timer left running.
LoginSpawnErrorKeepsTimer ==
    /\ InLogin /\ pc = "login"
    /\ loginProcs[attempt] = "running"
    /\ attemptPromise = "pending"
    /\ timeoutId' = timeoutId
    /\ loginProcs' = SetProc(loginProcs, attempt, "exited")
    /\ attemptPromise' = "rejected"
    /\ AttemptRejected(Error("spawn", attempt, <<>>))
    /\ UNCHANGED <<entry, inputVars, httpRequest, envVars, pending, tagResult, calls, deployVars, retries, attempt, elapsed, pushVars>>

\* loginProcess.on('error') of the current attempt.
LoginSpawnError ==
    /\ InLogin /\ pc = "login"
    /\ loginProcs[attempt] = "running"
    /\ attemptPromise = "pending"
    /\ timeoutId' = "cleared"
    /\ loginProcs' = SetProc(loginProcs, attempt, "exited")
    /\ attemptPromise' = "rejected"
    /\ AttemptRejected(Error("spawn", attempt, <<>>))
    /\ UNCHANGED <<entry, inputVars, httpRequest, envVars, pending, tagResult, calls, deployVars, retries, attempt, elapsed, pushVars>>

\* LoginTimeout that kills the subprocess and leaves the promise pending.
LoginTimeoutKillOnly ==
    /\ InLogin /\ pc = "login"
    /\ timeoutId = "armed" /\ elapsed = TIMEOUT_MS
    /\ timeoutId' = "fired"
    /\ loginProcs' = SetProc(loginProcs, attempt, "killed")
    /\ UNCHANGED <<entry, inputVars, httpRequest, envVars, pending, pc, failedAt, exitCode, calls, tagResult, deployVars,
                   retries, attempt, elapsed, attemptPromise, loginResult,
                   loginError, waits, pushVars>>

\* The attempt's setTimeout callback.
LoginTimeout ==
    /\ InLogin /\ pc = "login"
    /\ timeoutId = "armed" /\ elapsed = TIMEOUT_MS
    /\ attemptPromise = "pending"
    /\ timeoutId' = "fired"
    /\ loginProcs' = SetProc(loginProcs, attempt, "killed")
    /\ attemptPromise' = "rejected"
    /\ AttemptRejected(Error("timeout", attempt, <<>>))
    /\ UNCHANGED <<entry, inputVars, httpRequest, envVars, pending, tagResult, calls, deployVars, retries, attempt, elapsed, pushVars>>

\* A subprocess killed by its attempt's timeout closes: its handler clears
\* a timer that has fired and rejects a promise that is settled.
KilledLoginClose ==
    /\ exitCode = -1
    /\ \E k \in 1..Len(loginProcs) :
          /\ loginProcs[k] = "killed"
          /\ loginProcs' = SetProc(loginProcs, k, "exited")
    /\ UNCHANGED <<entry, inputVars, httpRequest, envVars, pending, tagResult, pc, failedAt, exitCode, calls, deployVars, retries,
                   attempt, timeoutId, elapsed, attemptPromise, loginResult,
                   loginError, waits, pushVars>>

\* The backoff timer fires: the loop starts the next attempt.
BackoffElapsed ==
    /\ InLogin /\ pc = "backoff"
    /\ pc' = "login"
    /\ attempt' = attempt + 1
    /\ loginProcs' = Append(loginProcs, "running")
    /\ timeoutId' = "armed"
    /\ elapsed' = 0
    /\ attemptPromise' = "pending"
    /\ UNCHANGED <<entry, inputVars, httpRequest, envVars, pending, tagResult, failedAt, exitCode, calls, deployVars, retries,
                   loginResult, loginError, waits, pushVars>>


---------------------------------------------------------------------------
(* dockerPush. *)

\* The handlers of the push subprocess stay registered until it closes.
PushListening == exitCode = -1 /\ pushProcess \in {"running", "killed"}

CurrentSession == Session(layers, totalLayers, completedLayers)

\* PushSettles with lambdaDeploy going on to the confirm request whatever
\* the outcome.
PushSettlesUnchecked(outcome, err) ==
    IF pushPromise # "pending"
    THEN UNCHANGED <<pushPromise, pushError, pc, failedAt, exitCode, calls,
                     confirmBody>>
    ELSE /\ pushPromise' = outcome
         /\ pushError' = err
         /\ IF entry # "lambdaDeploy"
            THEN /\ pc' = "returned"
                 /\ UNCHANGED <<failedAt, exitCode, calls, confirmBody>>
            ELSE /\ pc' = "confirm"
                 /\ calls' = calls \cup {"confirm"}
                 /\ confirmBody' =
                        [deployment_id |-> deploymentRequest.deployment_id,
                         image_uri |-> RemoteTag(deploymentRequest.repository_uri)]
                 /\ UNCHANGED <<failedAt, exitCode>>

\* The push promise settles, if it is still pending, and the code awaiting
\* it runs: pushImageToECR returns remoteTag and lambdaDeploy sends the
\* confirm request, or the rejection reaches lambdaDeploy's catch.
PushSettles(outcome, err) ==
    IF pushPromise # "pending"
    THEN UNCHANGED <<pushPromise, pushError, pc, failedAt, exitCode, calls,
                     confirmBody>>
    ELSE /\ pushPromise' = outcome
         /\ pushError' = err
         /\ IF entry # "lambdaDeploy"
            THEN /\ pc' = "returned"
                 /\ UNCHANGED <<failedAt, exitCode, calls, confirmBody>>
            ELSE IF outcome = "resolved"
            THEN /\ pc' = "confirm"
                 /\ calls' = calls \cup {"confirm"}
                 /\ confirmBody' =
                        [deployment_id |-> deploymentRequest.deployment_id,
                         image_uri |-> RemoteTag(deploymentRequest.repository_uri)]
                 /\ UNCHANGED <<failedAt, exitCode>>
            ELSE /\ Exit1("push")
                 /\ UNCHANGED <<calls, confirmBody>>

\* onProgress(ev): the event is delivered; pushImageToECR's callback renders.
Deliver(ev) ==
    /\ lastEvent' = ev
    /\ lastPercent' = IF entry = "lambdaDeploy" THEN Render(lastPercent, ev)
                      ELSE lastPercent

\* An exception leaves a 'data' handler: no one catches it and Node ends
\* the process with code 1.
Uncaught ==
    /\ pc' = "exited"
    /\ exitCode' = 1
    /\ failedAt' = "uncaught"

\* pushProcess.stdout.on('data'), for a chunk holding one line.  A chunk of
\* several lines runs the same body once per line, in order.
StdoutData ==
    /\ PushListening
    /\ \E line \in Lines :
          LET s == ProcessLine(CurrentSession, line)
              ev == ProgressAfter(s)
          IN /\ lastOutput' = now
             /\ chunkAt' = now
             /\ layers' = s.layers
             /\ totalLayers' = s.totalLayers
             /\ completedLayers' = s.completedLayers
             /\ IF ev # NoEvent THEN Deliver(ev)
                ELSE UNCHANGED <<lastEvent, lastPercent>>
             /\ IF /\ ev # NoEvent
                   /\ entry = "lambdaDeploy"
                   /\ RenderThrows(lastPercent, ev)
                THEN Uncaught
                ELSE UNCHANGED <<pc, failedAt, exitCode>>
    /\ UNCHANGED <<entry, inputVars, httpRequest, envVars, pending, tagResult, calls,
                   deployVars, loginVars,
                   now, hasError, errorMessage, timeoutCheck, pushProcess,
                   pushExitCode, pushPromise, pushError>>

RECURSIVE FeedLines(_, _)
\* lines.forEach: the session, the last event delivered and lastPercent
\* after the lines of one chunk; thrown says that the callback threw, which
\* ends the loop.
FeedLines(r, lines) ==
    IF lines = <<>> \/ r.thrown THEN r
    ELSE LET s == ProcessLine(r.session, Scan(Head(lines)))
             ev == ProgressAfter(s)
         IN FeedLines(
                IF ev = NoEvent
                THEN [r EXCEPT !.session = s]
                ELSE [session |-> s,
                      lastEvent |-> ev,
                      lastPercent |-> IF entry = "lambdaDeploy"
                                      THEN Render(r.lastPercent, ev)
                                      ELSE r.lastPercent,
                      thrown |-> /\ entry = "lambdaDeploy"
                                 /\ RenderThrows(r.lastPercent, ev)],
                Tail(lines))

\* The lengths of the next chunk: up to the end of the first line left, a
\* cut inside a line, or all that is left.
ChunkLengths(text) ==
    {n \in {IndexOf(text, "\n"), CutAt, Len(text)} : n >= 1 /\ n <= Len(text)}

\* pushProcess.stdout.on('data') for a chunk of the scripted output, cut
\* wherever the pipe cuts it: output.split('\n'), then the body per line.
StdoutChunk ==
    /\ PushListening
    /\ pending # <<>>
    /\ \E n \in ChunkLengths(pending) :
          LET r == FeedLines([session |-> CurrentSession,
                              lastEvent |-> lastEvent,
                              lastPercent |-> lastPercent,
                              thrown |-> FALSE],
                             Split(SubSeq(pending, 1, n), "\n"))
          IN /\ pending' = SubSeq(pending, n + 1, Len(pending))
             /\ lastOutput' = now
             /\ chunkAt' = now
             /\ layers' = r.session.layers
             /\ totalLayers' = r.session.totalLayers
             /\ completedLayers' = r.session.completedLayers
             /\ lastEvent' = r.lastEvent
             /\ lastPercent' = r.lastPercent
             /\ IF r.thrown THEN Uncaught
                ELSE UNCHANGED <<pc, failedAt, exitCode>>
    /\ UNCHANGED <<entry, inputVars, httpRequest, envVars, tagResult,
                   calls, deployVars, loginVars, now, hasError, errorMessage,
                   timeoutCheck, pushProcess, pushExitCode, pushPromise,
                   pushError>>

\* StderrLastOutput with the reset left out.
StderrLastOutputKept(t, last) == last

\* lastOutput = Date.now() of the stderr handler.
StderrLastOutput(t, last) == t

\* pushProcess.stderr.on('data')
StderrData ==
    /\ PushListening
    /\ \E chunk \in StderrChunks :
          /\ lastOutput' = StderrLastOutput(now, lastOutput)
          /\ chunkAt' = now
          /\ IF LooksLikeError(chunk)
             THEN /\ Len(errorMessage) < MaxErrorChunks
                  /\ hasError' = TRUE
                  /\ errorMessage' = Append(errorMessage, chunk)
             ELSE UNCHANGED <<hasError, errorMessage>>
    /\ UNCHANGED <<entry, inputVars, httpRequest, envVars, pending, tagResult, pc, failedAt, exitCode, calls, deployVars, loginVars,
                   layers, totalLayers, completedLayers, now, timeoutCheck,
                   pushProcess, pushExitCode, pushPromise, pushError, lastEvent,
                   lastPercent>>

\* Clock advances made so far, each by the interval or by the window.
Advances(t) == (t \div STALL_MS) + ((t % STALL_MS) \div CHECK_INTERVAL_MS)

\* The condition of the watchdog: timeSinceLastOutput > 600000.
Stalled(t, last) == t - last > STALL_MS

\* d ms pass without output and the interval callback runs at the end of
\* them.  The callbacks that were due in between found no stall.
TimeoutCheck ==
    /\ exitCode = -1 /\ timeoutCheck = "active"
    /\ Advances(now) < MaxAdvances
    /\ \E d \in {CHECK_INTERVAL_MS, STALL_MS} :
          /\ ~Stalled(now + d - CHECK_INTERVAL_MS, lastOutput)
          /\ now' = now + d
          /\ IF Stalled(now + d, lastOutput)
             THEN /\ timeoutCheck' = "cleared"
                  /\ pushProcess' = IF pushProcess = "running" THEN "killed"
                                    ELSE pushProcess
                  /\ PushSettles("rejected", Error("stall", 0, <<>>))
             ELSE UNCHANGED <<timeoutCheck, pushProcess, pushPromise, pushError,
                              pc, failedAt, exitCode, calls, confirmBody>>
    /\ UNCHANGED <<entry, inputVars, httpRequest, envVars, pending, tagResult, deploymentRequest, loginVars, layers,
                   totalLayers, completedLayers, lastOutput, hasError,
                   errorMessage, pushExitCode, chunkAt, lastEvent, lastPercent>>

\* The forced event of the close handler: onProgress(100, totalLayers, totalLayers).
FinalEvent(s) == Event(100, s.totalLayers, s.totalLayers)

\* CloseError without the captured text.
CloseErrorGeneric == Error("generic", 0, <<>>)

\* The error the close handler rejects with on a non-zero code.
CloseError ==
    IF hasError /\ errorMessage # <<>>
    THEN Error("pushFailed", 0, errorMessage)
    ELSE Error("generic", 0, <<>>)

\* pushProcess.on('close').  A subprocess that failed to start closes with a
\* non-zero code; one the watchdog killed may still report any code.
\* 'close' comes after the streams have ended, so after the last chunk.
PushClose ==
    /\ exitCode = -1 /\ pushProcess \in {"running", "killed", "failed"}
    /\ pending = <<>>
    /\ \E code \in {0, 1} :
          /\ pushProcess = "failed" => code # 0
          /\ timeoutCheck' = "cleared"
          /\ pushProcess' = "closed"
          /\ pushExitCode' = code
          /\ IF code = 0
             THEN /\ IF totalLayers > 0
                     THEN Deliver(FinalEvent(CurrentSession))
                     ELSE UNCHANGED <<lastEvent, lastPercent>>
                  /\ PushSettles("resolved", NoError)
             ELSE /\ PushSettles("rejected", CloseError)
                  /\ UNCHANGED <<lastEvent, lastPercent>>
    /\ UNCHANGED <<entry, inputVars, httpRequest, envVars, pending, tagResult, deploymentRequest, loginVars, layers,
                   totalLayers, completedLayers, now, lastOutput, chunkAt,
                   hasError, errorMessage>>

\* PushSpawnError with the watchdog left running.
PushSpawnErrorKeepsWatchdog ==
    /\ exitCode = -1 /\ pushProcess = "running"
    /\ lastOutput = 0 /\ layers = <<>> /\ ~hasError
    /\ timeoutCheck' = timeoutCheck
    /\ pushProcess' = "failed"
    /\ PushSettles("rejected", Error("spawn", 0, <<>>))
    /\ UNCHANGED <<entry, inputVars, httpRequest, envVars, pending, tagResult, deploymentRequest, loginVars, layers,
                   totalLayers, completedLayers, now, lastOutput, chunkAt,
                   pushExitCode, hasError, errorMessage, lastEvent, lastPercent>>

\* pushProcess.on('error'): the subprocess could not be started.
PushSpawnError ==
    /\ exitCode = -1 /\ pushProcess = "running"
    /\ lastOutput = 0 /\ layers = <<>> /\ ~hasError
    /\ timeoutCheck' = "cleared"
    /\ pushProcess' = "failed"
    /\ PushSettles("rejected", Error("spawn", 0, <<>>))
    /\ UNCHANGED <<entry, inputVars, httpRequest, envVars, pending, tagResult, deploymentRequest, loginVars, layers,
                   totalLayers, completedLayers, now, lastOutput, chunkAt,
                   pushExitCode, hasError, errorMessage, lastEvent, lastPercent>>

---------------------------------------------------------------------------

Next ==
    \/ LambdaDeployStart
    \/ CheckDockerInstalledDone
    \/ CheckDockerImageDone
    \/ GetImageSizeDone
    \/ CredentialsResponse
    \/ LoginElapse
    \/ LoginClose
    \/ LoginSpawnError
    \/ LoginTimeout
    \/ KilledLoginClose
    \/ BackoffElapsed
    \/ TagDone
    \/ StdoutData
    \/ StderrData
    \/ TimeoutCheck
    \/ PushClose
    \/ PushSpawnError
    \/ ConfirmResponse

Spec == Init /\ [][Next]_vars


\* A push whose output is scripted: dockerPush called directly, or by a
\* deploy run that got its credentials, logged in and tagged the image.
ScriptInit ==
    /\ argument = <<>>
    /\ httpRequest = [method |-> "", path |-> <<>>]
    /\ output \in Outputs
    /\ pending = output
    /\ options = NoOptions
    /\ envFileOnDisk = NoEnvFile
    /\ environmentVars = <<>>
    /\ failedAt = "none"
    /\ exitCode = -1
    /\ confirmBody = <<>>
    /\ pc = "push"
    /\ PushCalled
    /\ retries = 0
    /\ attempt = 0
    /\ loginProcs = <<>>
    /\ timeoutId = "none"
    /\ elapsed = 0
    /\ attemptPromise = "none"
    /\ loginError = NoError
    /\ waits = <<>>
    /\ \/ /\ entry = "dockerPush"
          /\ calls = {"push"}
          /\ deploymentRequest = NoBody
          /\ requestBody = NoRequest
          /\ tagResult = "none"
          /\ loginResult = "none"
       \/ /\ entry = "lambdaDeploy"
          /\ calls = {"credentials", "login", "tag", "push"}
          /\ deploymentRequest = Body("registry.example", "registry.example/repo")
          /\ requestBody = CredentialsRequest(<<>>)
          /\ tagResult = "resolved"
          /\ loginResult = "resolved"

ScriptNext ==
    \/ StdoutChunk
    \/ PushClose
    \/ ConfirmResponse

ScriptSpec == ScriptInit /\ [][ScriptNext]_vars

---------------------------------------------------------------------------
(* lambdaDeploy with an env file and --env flags, up to the credentials    *)
(* request.                                                                *)

EnvInit ==
    /\ output = <<>> /\ pending = <<>>
    /\ argument = <<>>
    /\ httpRequest = [method |-> "", path |-> <<>>]
    /\ DeployCalled
    /\ \E flags \in SeqsUpTo(FlagEntries, MaxEntries) :
          \/ /\ options = Options(FALSE, Texts(flags))
             /\ envFileOnDisk = NoEnvFile
          \/ \E lines \in SeqsUpTo(FileEntries, MaxEntries) :
                /\ options = Options(TRUE, Texts(flags))
                /\ envFileOnDisk = EnvFileOf(lines)

EnvNext ==
    \/ LambdaDeployStart
    \/ CheckDockerInstalledDone
    \/ CheckDockerImageDone
    \/ GetImageSizeDone

EnvSpec == EnvInit /\ [][EnvNext]_vars

---------------------------------------------------------------------------
(* The commands that build an endpoint with a query string: bucketDelete,  *)
(* lambdaLogs and fileList, up to the answer to their request.             *)

\* API_ENDPOINTS comes from the configuration module, which is not among
\* the sources; the paths here keep what the commands replace in them:
\* '/list', '{functionName}' and '{bucketName}'.
API_ENDPOINTS ==
    [STORAGE_BUCKET_LIST |-> <<"/", "b", "u", "c", "k", "e", "t", "s", "/", "l", "i", "s",
        "t">>,
     LAMBDA_LOGS |->
        <<"/", "l", "a", "m", "b", "d", "a", "/", "{", "f", "u", "n",
          "c", "t", "i", "o", "n", "N", "a", "m", "e", "}", "/", "l",
          "o", "g", "s">>,
     STORAGE_FILE_LIST |->
        <<"/", "b", "u", "c", "k", "e", "t", "s", "/", "{", "b", "u",
          "c", "k", "e", "t", "N", "a", "m", "e", "}", "/", "f", "i",
          "l", "e", "s">>]

\* s.replace(pattern, with): the first occurrence.
Replace(s, pattern, with) ==
    LET at == {j \in 1..Len(s) : LitAt(s, j, pattern)}
        j == CHOOSE x \in at : \A y \in at : x <= y
    IN IF at = {} THEN s
       ELSE SubSeq(s, 1, j - 1) \o with \o SubSeq(s, j + Len(pattern), Len(s))

RECURSIVE EncodeURIComponent(_)
\* encodeURIComponent, for a text of letters, digits, '/' and ' '.
EncodeURIComponent(s) ==
    IF s = <<>> THEN <<>>
    ELSE (CASE Head(s) = "/" -> <<"%", "2", "F">>
            [] Head(s) = " " -> <<"%", "2", "0">>
            [] OTHER -> <<Head(s)>>)
         \o EncodeURIComponent(Tail(s))

\* bucketDelete: endpoint
BucketDeleteEndpoint(bucketName, opts) ==
    Replace(API_ENDPOINTS.STORAGE_BUCKET_LIST, <<"/", "l", "i", "s", "t">>, <<"/">> \o bucketName)
    \o (IF opts.force THEN <<"?", "f", "o", "r", "c", "e", "=", "t", "r", "u", "e">> ELSE <<>>)

\* lambdaLogs: fullEndpoint.  parseInt(x) || d is the number, or d for 0.
LambdaLogsEndpoint(functionName, opts) ==
    LET endpoint == Replace(API_ENDPOINTS.LAMBDA_LOGS, <<"{", "f", "u", "n", "c", "t", "i", "o", "n", "N", "a", "m", "e", "}">>, functionName)
        page == IF ToNumber(opts.page) = 0 THEN 1 ELSE ToNumber(opts.page)
        perPage == Min(IF ToNumber(opts.perPage) = 0 THEN 100
                       ELSE ToNumber(opts.perPage), 1000)
        queryParams ==
            (IF opts.page # <<>>
             THEN <<<<"p", "a", "g", "e", "=">> \o DigitsOf(page)>> ELSE <<>>)
            \o (IF opts.perPage # <<>>
                THEN <<<<"p", "e", "r", "_", "p", "a", "g", "e", "=">> \o DigitsOf(perPage)>>
                ELSE <<>>)
        queryString == Join(queryParams, "&")
    IN IF queryString # <<>> THEN endpoint \o <<"?">> \o queryString
       ELSE endpoint

\* fileList: endpoint
FileListEndpoint(bucketName, opts) ==
    LET endpoint == Replace(API_ENDPOINTS.STORAGE_FILE_LIST, <<"{", "b", "u", "c", "k", "e", "t", "N", "a", "m", "e", "}">>, bucketName)
        params ==
            (IF opts.folder # <<>>
             THEN <<<<"f", "o", "l", "d", "e", "r", "_", "p", "a", "t", "h", "=">> \o EncodeURIComponent(opts.folder)>>
             ELSE <<>>)
            \o (IF opts.page # <<>>
                THEN <<<<"p", "a", "g", "e", "=">> \o opts.page>> ELSE <<>>)
            \o (IF opts.perPage # <<>>
                THEN <<<<"p", "e", "r", "_", "p", "a", "g", "e", "=">> \o opts.perPage>> ELSE <<>>)
    IN IF Len(params) > 0 THEN endpoint \o <<"?">> \o Join(params, "&")
       ELSE endpoint

\* makeApiRequest: options.path, which is url.pathname of
\* new URL(endpoint, API_BASE_URL): the path up to the query string.
RequestPath(endpoint) ==
    IF IndexOf(endpoint, "?") = 0 THEN endpoint
    ELSE SubSeq(endpoint, 1, IndexOf(endpoint, "?") - 1)

\* The calls made: the command, its name argument and its options.
Commands ==
    LET Opts(force, folder, page, perPage) ==
            [force |-> force, folder |-> folder, page |-> page,
             perPage |-> perPage]
        Call(command, name, opts) ==
            [entry |-> command, argument |-> name, options |-> opts]
    IN {Call("bucketDelete", name, Opts(force, <<>>, <<>>, <<>>)) :
            name \in {<<"b", "1">>, <<"b", "2">>}, force \in BOOLEAN}
       \cup {Call("lambdaLogs", <<"f", "n">>, Opts(FALSE, <<>>, page, perPage)) :
            page \in {<<>>, <<"2">>},
            perPage \in {<<>>, <<"5", "0">>, <<"2", "0", "0", "0">>}}
       \cup {Call("fileList", name, Opts(FALSE, folder, page, perPage)) :
            name \in {<<"b", "1">>, <<"b", "2">>},
            folder \in {<<>>, <<"d", "o", "c", "s">>, <<"a", "/", "b">>},
            page \in {<<>>, <<"2">>},
            perPage \in {<<>>, <<"5", "0">>}}

RequestInit ==
    /\ \E call \in Commands :
          /\ entry = call.entry
          /\ argument = call.argument
          /\ options = call.options
    /\ httpRequest = [method |-> "", path |-> <<>>]
    /\ pc = "start"
    /\ failedAt = "none"
    /\ exitCode = -1
    /\ calls = {}
    /\ deploymentRequest = NoBody
    /\ confirmBody = <<>>
    /\ tagResult = "none"
    /\ environmentVars = <<>>
    /\ requestBody = NoRequest
    /\ envFileOnDisk = NoEnvFile
    /\ output = <<>> /\ pending = <<>>
    /\ LoginIdle
    /\ PushIdle

\* The command up to its await: requireAuth, the endpoint, and the request
\* makeApiRequest issues for it.
IssueRequest ==
    /\ entry \in {"bucketDelete", "lambdaLogs", "fileList"} /\ pc = "start"
    /\ \E credentials \in BOOLEAN :
          IF ~credentials
          THEN Exit1("requireAuth") /\ UNCHANGED httpRequest
          ELSE /\ pc' = "request"
               /\ httpRequest' =
                    CASE entry = "bucketDelete" ->
                            [method |-> "DELETE",
                             path |-> RequestPath(
                                BucketDeleteEndpoint(argument, options))]
                      [] entry = "lambdaLogs" ->
                            [method |-> "GET",
                             path |-> RequestPath(
                                LambdaLogsEndpoint(argument, options))]
                      [] entry = "fileList" ->
                            [method |-> "GET",
                             path |-> RequestPath(
                                FileListEndpoint(argument, options))]
               /\ UNCHANGED <<failedAt, exitCode>>
    /\ UNCHANGED <<entry, inputVars, envVars, pending, tagResult, calls,
                   deployVars, loginVars, pushVars>>

\* The request is answered: the command returns, or its catch block exits.
RequestAnswered ==
    /\ entry \in {"bucketDelete", "lambdaLogs", "fileList"} /\ pc = "request"
    /\ \E resp \in Responses :
          IF MakeApiRequest(resp).ok
          THEN pc' = "returned" /\ UNCHANGED <<failedAt, exitCode>>
          ELSE Exit1("request")
    /\ UNCHANGED <<entry, inputVars, httpRequest, envVars, pending, tagResult,
                   calls, deployVars, loginVars, pushVars>>

RequestNext ==
    \/ IssueRequest
    \/ RequestAnswered

RequestSpec == RequestInit /\ [][RequestNext]_vars

---------------------------------------------------------------------------
(* The claims. *)

\* C1 (P1, monotonic completion): once a layer is completed, no later line
\* reverts it: in every step its completed flag stays true and its status
\* stays 'complete'.
C1_MonotonicCompletion ==
    [][\A id \in DOMAIN layers :
          layers[id].completed =>
              /\ id \in DOMAIN layers'
              /\ layers'[id].completed
              /\ layers'[id].status = "complete"]_vars

\* C2 (P2, percent bounds): every overallPercent passed to the progress
\* callback is an integer from 0 to 100.
C2_PercentBounds ==
    lastEvent # NoEvent => lastEvent.percent \in 0..100

PushClosedWithZero ==
    pushProcess = "closed" /\ pushExitCode = 0 /\ totalLayers > 0

\* C3 (P4, terminal forcing): after the subprocess closed with code 0 and a
\* layer was discovered, the last event delivered is
\* (100, totalLayers, totalLayers), whatever the layers' states, and the push
\* has resolved.
C3_TerminalForcing ==
    PushClosedWithZero =>
        /\ lastEvent = Event(100, totalLayers, totalLayers)
        /\ pushPromise = "resolved"

\* C4 (P5, unseen-layer terminal line): while the handler listens, a line
\* '<layerId>: Pushed' for a layer no earlier line has registered creates the
\* layer completed with total = 0 and current = 0 and raises totalLayers and
\* completedLayers by one each; so does "abc123: Pushed" as the only line.
C4_UnseenLayerPushed ==
    PushListening =>
        \A id \in LayerIds \cup {IdShort} :
            ~Known(layers, id) =>
                LET s == ProcessLine(CurrentSession, Line(id, "Pushed", NoProgress))
                IN /\ Known(s.layers, id)
                   /\ s.layers[id] = LayerRec(0, 0, TRUE, "complete")
                   /\ s.totalLayers = totalLayers + 1
                   /\ s.completedLayers = completedLayers + 1

\* C5 (P8, stall timeout): when the watchdog runs more than the window after
\* the last chunk of either stream, the subprocess is killed and the push
\* fails with the stall error; the push fails so only then; and the
\* measurement starts again at every chunk of either stream.
C5_StallTimeout ==
    [][/\ (timeoutCheck = "active" /\ now' > now /\ now' - chunkAt > STALL_MS)
            => /\ pushProcess' = "killed"
               /\ timeoutCheck' = "cleared"
               /\ pushPromise' = "rejected"
               /\ pushError'.kind = "stall"
       /\ (pushError.kind # "stall" /\ pushError'.kind = "stall")
            => now' - chunkAt' > STALL_MS
       /\ lastOutput' = chunkAt']_vars

\* A push killed and failed by the watchdog after a chunk had restarted the
\* measurement.
C5_Witness ==
    /\ pushProcess = "killed"
    /\ pushPromise = "rejected"
    /\ pushError.kind = "stall"
    /\ chunkAt > 0
    /\ now - chunkAt = STALL_MS + CHECK_INTERVAL_MS

\* C6 (P7, login retry): a login that succeeds does so at an attempt k within
\* retries, after k - 1 failed attempts each followed by one wait, with
\* exactly k subprocesses started and none started after it; and no attempt
\* is pending for longer than TIMEOUT_MS.
C6_LoginRetry ==
    /\ attemptPromise = "pending" => elapsed <= TIMEOUT_MS
    /\ (entry = "dockerLogin" /\ loginResult = "resolved") =>
          /\ pc = "returned"
          /\ attempt \in 1..retries
          /\ Len(loginProcs) = attempt
          /\ Len(waits) = attempt - 1
          /\ \A k \in 1..Len(loginProcs) : loginProcs[k] # "running"
          /\ ~ENABLED BackoffElapsed

\* Two failed attempts, then success at the third.
C6_Witness ==
    /\ entry = "dockerLogin"
    /\ loginResult = "resolved"
    /\ retries >= 3
    /\ attempt = 3
    /\ Len(loginProcs) = 3

\* C7 (login exhaustion): a login that fails has made exactly retries
\* attempts and fails with the error of the last of them.
C7_LoginExhaustion ==
    loginResult = "rejected" =>
        /\ attempt = retries
        /\ Len(loginProcs) = retries
        /\ Len(waits) = retries - 1
        /\ loginError.attempt = retries
        /\ loginError.kind \in {"failed", "timeout", "spawn"}

\* pushImageToECR's login failing at its third attempt.
C7_Witness ==
    /\ entry = "lambdaDeploy"
    /\ loginResult = "rejected"
    /\ failedAt = "login"
    /\ Len(loginProcs) = ECR_LOGIN_RETRIES
    /\ loginError.attempt = ECR_LOGIN_RETRIES

\* C8 (fail fast): a deploy that fails for a missing --image option, an
\* unreachable docker tool or a missing local image has exited with code 1
\* and has made no network call.
C8_FailFast ==
    failedAt \in {"image", "checkDockerInstalled", "imageNotFound"} =>
        /\ exitCode = 1
        /\ pc = "exited"
        /\ calls = {}

\* A deploy that stopped at the missing local image.
C8_Witness ==
    /\ entry = "lambdaDeploy"
    /\ failedAt = "imageNotFound"
    /\ exitCode = 1

CredentialsAnswered ==
    /\ entry = "lambdaDeploy"
    /\ "credentials" \in calls
    /\ pc # "credentials"
    /\ failedAt # "credentials"

FieldMissing ==
    \/ deploymentRequest.ecr_url = Undefined
    \/ deploymentRequest.repository_uri = Undefined

\* C9 (incomplete credential response): a 2xx credentials response without
\* ecr_url or without repository_uri ends the deploy with exit code 1 as an
\* invalid response, with no login, tag, push or confirm started.
C9_IncompleteResponse ==
    (CredentialsAnswered /\ FieldMissing) =>
        /\ failedAt = "invalidResponse"
        /\ exitCode = 1
        /\ calls = {"credentials"}

\* The response {ecr_url: "x"} alone.
C9_Witness ==
    /\ failedAt = "invalidResponse"
    /\ deploymentRequest = Body("x", Undefined)
    /\ exitCode = 1

\* C10 (confirm only after a successful publish): the confirm request is
\* sent only after the credentials request, the login, the tag and the push
\* all succeeded; a failed stage ends the run with exit code 1 with no later
\* stage started and nothing left to run.
C10_ConfirmAfterPublish ==
    entry = "lambdaDeploy" =>
        /\ "confirm" \in calls =>
              /\ ResponseComplete(deploymentRequest)
              /\ loginResult = "resolved"
              /\ tagResult = "resolved"
              /\ pushPromise = "resolved"
              /\ calls = {"credentials", "login", "tag", "push", "confirm"}
        /\ failedAt # "none" => (exitCode = 1 /\ pc = "exited" /\ ~ENABLED Next)
        /\ failedAt \in {"credentials", "invalidResponse"} =>
              calls = {"credentials"}
        /\ loginResult = "rejected" =>
              (failedAt = "login" /\ calls = {"credentials", "login"})
        /\ tagResult = "rejected" =>
              (failedAt = "tag" /\ calls = {"credentials", "login", "tag"})
        /\ pushPromise = "rejected" =>
              (failedAt = "push" /\ calls = {"credentials", "login", "tag", "push"})

\* A deploy whose push exited non-zero after 'unauthorized: authentication
\* required' on the error stream.
C10_Witness ==
    /\ entry = "lambdaDeploy"
    /\ failedAt = "push"
    /\ pushExitCode = 1
    /\ pushError = Error("pushFailed", 0, <<Unauthorized>>)
    /\ "confirm" \notin calls

PushClosedNonZero == pushProcess = "closed" /\ pushExitCode > 0

\* The samples that contain 'error', 'denied' or 'unauthorized' in some case.
ErrorSamples == {Unauthorized, AccessDenied}

CapturedOrGeneric ==
    IF errorMessage # <<>>
    THEN pushError = Error("pushFailed", 0, errorMessage)
    ELSE pushError = Error("generic", 0, <<>>)

SamplesClassified ==
    \A chunk \in StderrSamples : LooksLikeError(chunk) <=> chunk \in ErrorSamples

ChunksClassified ==
    /\ SamplesClassified
    /\ hasError <=> errorMessage # <<>>
    /\ \A k \in 1..Len(errorMessage) : errorMessage[k] \in ErrorSamples

\* C11 (push failure detail) as stated: after a close with a non-zero code
\* the push has failed with the text captured from the error stream, if a
\* chunk containing 'error', 'denied' or 'unauthorized' in any case was seen,
\* and with the generic message otherwise.
C11_PushFailureDetailAsStated ==
    /\ ChunksClassified
    /\ PushClosedNonZero => (pushPromise = "rejected" /\ CapturedOrGeneric)

\* C11 (push failure detail) as amended: after a close with a non-zero code
\* the push has failed; unless it had failed before the close (the stall
\* timeout, or the subprocess could not be started), its error carries the
\* text captured from the error stream, if a chunk containing 'error',
\* 'denied' or 'unauthorized' in any case was seen, and is the generic one
\* otherwise.
C11_PushFailureDetail ==
    /\ ChunksClassified
    /\ PushClosedNonZero =>
          /\ pushPromise = "rejected"
          /\ pushError.kind \in {"stall", "spawn"} \/ CapturedOrGeneric

\* A direct push that closed non-zero after 'unauthorized: authentication
\* required' and failed with that text.
C11_Witness ==
    /\ entry = "dockerPush"
    /\ PushClosedNonZero
    /\ pushPromise = "rejected"
    /\ pushError = Error("pushFailed", 0, <<Unauthorized>>)

\* The stages of a deploy run, in order, by the await the run is at.
StageRank(at) ==
    CASE at \in {"start", "checkDockerInstalled", "checkDockerImage",
                 "getImageSize"} -> 1                        \* Validating
      [] at = "credentials" -> 2                             \* RequestingCredentials
      [] at \in {"login", "backoff"} -> 3                    \* Authenticating
      [] at = "tag" -> 4                                     \* Tagging
      [] at = "push" -> 5                                    \* Pushing
      [] at = "confirm" -> 6                                 \* Confirming
      [] at = "done" -> 7                                    \* Done
      [] OTHER -> 0                                          \* failed

\* The stages with an operation, a timer or a promise still open.  Timers
\* and promises end with the process: one that has exited has none.
StagesInProgress ==
    IF exitCode # -1 THEN {}
    ELSE (IF loginResult = "pending" \/ timeoutId = "armed" THEN {3} ELSE {})
         \cup (IF tagResult = "pending" THEN {4} ELSE {})
         \cup (IF pushPromise = "pending" \/ timeoutCheck = "active"
               THEN {5} ELSE {})

\* Whether the stage of the given rank has completed successfully.
StageSucceeded(rank) ==
    CASE rank = 1 -> requestBody.sent /\ "credentials" \in calls
      [] rank = 2 -> ResponseComplete(deploymentRequest)
      [] rank = 3 -> loginResult = "resolved"
      [] rank = 4 -> tagResult = "resolved"
      [] rank = 5 -> pushPromise = "resolved"
      [] rank = 6 -> failedAt = "none"
      [] OTHER -> FALSE

\* C12 (strictly sequential stages): every step of a deploy run stays in its
\* stage, or moves to the next stage after the current one has succeeded, or
\* ends the run in failure; the only stage with anything in progress is the
\* current one; a run that has failed or is done takes no further step.
C12_SequentialStages ==
    [][entry = "lambdaDeploy" =>
          /\ \/ StageRank(pc') = StageRank(pc)
             \/ \E rank \in 1..6 :
                   /\ rank = StageRank(pc)
                   /\ StageRank(pc') = rank + 1
                   /\ StageSucceeded(rank)'
             \/ pc' = "exited" /\ failedAt' # "none" /\ calls' = calls
          /\ StagesInProgress' \subseteq {StageRank(pc')}
          /\ StageRank(pc) \in {0, 7} => (pc' = pc /\ calls' = calls)]_vars

\* A run that went through every stage to Done.
C12_Witness ==
    /\ entry = "lambdaDeploy"
    /\ pc = "done"
    /\ calls = {"credentials", "login", "tag", "push", "confirm"}
    /\ StagesInProgress = {}

\* C13 (happy path): a deploy whose push writes 'layer1: Preparing',
\* 'layer1: Pushing [===>] 10MB/50MB', 'layer1: Pushing [=====>] 50MB/50MB',
\* 'layer1: Pushed' and exits with 0 ends the push with the final event
\* (100, 1, 1), resolved, and sends '<repositoryUri>:latest' as image_uri of
\* the confirm request.
C13_HappyPath ==
    (/\ entry = "lambdaDeploy"
     /\ output = OneLayerPush(Layer1)
     /\ pushProcess = "closed"
     /\ pushExitCode = 0) =>
        /\ pushPromise = "resolved"
        /\ "confirm" \in calls
        /\ confirmBody.image_uri = RemoteTag(deploymentRequest.repository_uri)
        /\ lastEvent = Event(100, 1, 1)

\* The session the handler reaches when the whole text comes as one chunk.
WholeTextSession(text) ==
    FeedLines([session |-> Session(<<>>, 0, 0),
               lastEvent |-> NoEvent,
               lastPercent |-> 0,
               thrown |-> FALSE],
              Split(text, "\n")).session

\* C16 (chunk-boundary independence): once all of the output has been
\* delivered, the layer map, totalLayers and completedLayers are what the
\* whole text gives as one chunk, however it was cut into chunks.
C16_ChunkIndependence ==
    pending = <<>> => CurrentSession = WholeTextSession(output)

\* The keys a sequence of entries gives, and the value of the last entry
\* that gives a key.
KeysGiven(entries) ==
    {entries[i].key : i \in {n \in 1..Len(entries) : entries[n].given}}

LastGiven(entries, key) ==
    LET at == {n \in 1..Len(entries) :
                  entries[n].given /\ entries[n].key = key}
    IN entries[CHOOSE n \in at : \A m \in at : m <= n].value

\* The file-sourced set overwritten by the flag-sourced set.
Overwritten(lines, flags) ==
    [key \in KeysGiven(lines) \cup KeysGiven(flags) |->
        IF key \in KeysGiven(flags) THEN LastGiven(flags, key)
        ELSE LastGiven(lines, key)]

\* C14 (env merge precedence): the environment map sent with the
\* credentials request has, for every key given by an --env flag, the value
\* of the last flag for that key, and for every other key of the env file
\* the file's value; keys are case-sensitive.
C14_EnvMergePrecedence ==
    requestBody.sent =>
        \A flags \in SeqsUpTo(FlagEntries, MaxEntries) :
            options.env = Texts(flags) =>
                IF options.envFile
                THEN \A lines \in SeqsUpTo(FileEntries, MaxEntries) :
                        envFileOnDisk = EnvFileOf(lines) =>
                            requestBody.environment_vars =
                                Overwritten(lines, flags)
                ELSE requestBody.environment_vars = Overwritten(<<>>, flags)

\* The file 'FOO=1\nBAR=2' with the flags ['FOO=9'] was sent as
\* {FOO: '9', BAR: '2'}.
C14_Witness ==
    /\ requestBody.sent
    /\ envFileOnDisk.text = <<"F", "O", "O", "=", "1", "\n",
                              "B", "A", "R", "=", "2">>
    /\ options.envFile
    /\ options.env = <<(<<"F", "O", "O", "=", "9">>)>>
    /\ DOMAIN requestBody.environment_vars =
            {<<"F", "O", "O">>, <<"B", "A", "R">>}
    /\ requestBody.environment_vars[<<"F", "O", "O">>] = <<"9">>
    /\ requestBody.environment_vars[<<"B", "A", "R">>] = <<"2">>

\* Sizes as the subprocess prints them, with their value in bytes:
\* 512KB, 3.5MB, 1GB and 100B.
SizeSample(size, unit, bytes) == [size |-> size, unit |-> unit, bytes |-> bytes]

UnitSamples ==
    {SizeSample(Dec(512, 0), "KB", 524288),
     SizeSample(Dec(3, 5), "MB", 3670016),
     SizeSample(Dec(1, 0), "GB", 1073741824),
     SizeSample(Dec(100, 0), "B", 100)}

\* The session after the line '<id>: Pushing [==> ] <cur>/<tot>'.
AfterPushingLine(id, cur, tot) ==
    LET line == Line(id, "Pushing",
                     Progress(Bar, cur.size, cur.unit, tot.size, tot.unit))
    IN ProcessLine(CurrentSession, Scan(Head(Split(LineText(line), "\n"))))

\* C15 (unit conversion): a Pushing line with progress, each unit one of B,
\* KB, MB, GB, sets the layer's current and total to the value times 1,
\* 1024, 1024^2, 1024^3 bytes; 512KB is 524288 and 3.5MB is 3670016 bytes.
C15_UnitConversion ==
    PushListening =>
        \A id \in LayerIds, cur \in UnitSamples, tot \in UnitSamples :
            LET s == AfterPushingLine(id, cur, tot)
            IN /\ Known(s.layers, id)
               /\ s.layers[id].current = cur.bytes
               /\ s.layers[id].total = tot.bytes

\* C17 (completed-layer bytes): in every state reached by feeding lines to
\* the handler, every layer with completed = true and total > 0 has
\* current = total.
C17_CompletedLayerBytes ==
    \A id \in DOMAIN layers :
        (layers[id].completed /\ layers[id].total > 0) =>
            layers[id].current = layers[id].total

\* C18 (per-layer monotonicity): once a layer's total is known (> 0), its
\* current never decreases from one processed line to the next.
C18_CurrentNeverDecreases ==
    [][\A id \in DOMAIN layers :
          layers[id].total > 0 =>
              /\ id \in DOMAIN layers'
              /\ layers'[id].current >= layers[id].current]_vars

\* The layers of a map that are completed.
CompletedIn(l) == {id \in DOMAIN l : l[id].completed}

CountersMatch(l, total, completed) ==
    /\ total = Cardinality(DOMAIN l)
    /\ completed = Cardinality(CompletedIn(l))

\* C19 (counter consistency): before and after every step totalLayers is
\* the number of entries of the layer map and completedLayers the number of
\* entries with completed = true; no entry is removed from the map, and
\* completedLayers grows by exactly the layers that became completed in the
\* step, so a repeated terminal line counts nothing.
C19_CounterConsistency ==
    [][/\ CountersMatch(layers, totalLayers, completedLayers)
       /\ CountersMatch(layers', totalLayers', completedLayers')
       /\ completedLayers' <= totalLayers'
       /\ DOMAIN layers \subseteq DOMAIN layers'
       /\ completedLayers' =
            completedLayers
            + Cardinality(CompletedIn(layers') \ CompletedIn(layers))]_vars

\* Two layers are known; one was completed and a Pushing line for it came
\* after its terminal line, and it is counted once.
C19_Witness ==
    /\ DOMAIN layers = {IdA, IdB}
    /\ layers[IdA].completed /\ layers[IdA].status = "pushing"
    /\ ~layers[IdB].completed
    /\ totalLayers = 2
    /\ completedLayers = 1

\* The layers of a map whose size is known.
Sized(l) == {id \in DOMAIN l : l[id].total > 0}

RECURSIVE SumOf(_, _, _)
SumOf(l, ids, f) ==
    IF ids = {} THEN 0
    ELSE LET id == CHOOSE x \in ids : TRUE
         IN l[id][f] + SumOf(l, ids \ {id}, f)

\* p = round(100 * part / whole): p - 1/2 <= 100 * part / whole < p + 1/2,
\* on the reduced fraction.
IsRoundedPercent(p, part, whole) ==
    LET g == Gcd(whole, part)
        n == part \div g
        d == whole \div g
    IN 2 * d * p <= 200 * n + d /\ 200 * n + d < 2 * d * (p + 1)

\* C20 (aggregate progress policy): while the handler parses, the last
\* event carries (percent, completedLayers, totalLayers) of the session,
\* with percent = round(100 * sum of current / sum of total) over the layers
\* with total > 0 if there is one, and round(100 * completedLayers /
\* totalLayers) otherwise; no event has come while totalLayers = 0.
C20_AggregateProgress ==
    pushProcess \in {"running", "killed"} =>
        IF totalLayers = 0 THEN lastEvent = NoEvent
        ELSE /\ lastEvent.completed = completedLayers
             /\ lastEvent.total = totalLayers
             /\ IF Sized(layers) # {}
                THEN IsRoundedPercent(lastEvent.percent,
                                      SumOf(layers, Sized(layers), "current"),
                                      SumOf(layers, Sized(layers), "total"))
                ELSE IsRoundedPercent(lastEvent.percent,
                                      completedLayers, totalLayers)

\* One layer is at 10MB of 50MB and another is completed without a size:
\* the event says 20 percent (by bytes), not 50 (by count).
C20_Witness ==
    /\ pushProcess = "running"
    /\ DOMAIN layers = {IdA, IdB}
    /\ layers[IdA].total > 0 /\ ~layers[IdA].completed
    /\ layers[IdB].total = 0 /\ layers[IdB].completed
    /\ lastEvent = Event(20, 1, 2)

\* C21 (render suppression): the percent pushImageToECR displays never
\* decreases during a push.
C21_DisplayedNeverDecreases ==
    [][entry = "lambdaDeploy" => lastPercent' >= lastPercent]_vars

\* The gap after failed attempt k: 1s, 2s, 4s, then 5s.
BackoffSchedule(k) ==
    CASE k = 1 -> 1000
      [] k = 2 -> 2000
      [] k = 3 -> 4000
      [] OTHER -> 5000

\* C22 (backoff schedule): the k-th wait of dockerLogin is min(1s * 2^(k-1),
\* 5s); every failed attempt but the last is followed by one wait, and no
\* wait follows the last failed attempt or a successful one.
C22_BackoffSchedule ==
    /\ \A k \in 1..Len(waits) : waits[k] = BackoffSchedule(k)
    /\ (InLogin /\ pc = "backoff") => Len(waits) = attempt
    /\ (InLogin /\ pc = "login") => Len(waits) = attempt - 1
    /\ loginResult = "rejected" =>
          (attempt = retries /\ Len(waits) = retries - 1)
    /\ (entry = "dockerLogin" /\ loginResult = "resolved") =>
          Len(waits) = attempt - 1

\* Four failed attempts were followed by waits of 1s, 2s, 4s and 5s, and
\* the fifth attempt succeeded with no further wait.
C22_Witness ==
    /\ entry = "dockerLogin"
    /\ loginResult = "resolved"
    /\ attempt = 5
    /\ waits = <<1000, 2000, 4000, 5000>>

\* The current login attempt's promise settles in this step.
AttemptSettles == attemptPromise = "pending" /\ attemptPromise' # "pending"

\* The timer won: it was due, it fired, the subprocess is killed and the
\* attempt failed, by timeout.
TimerWins ==
    /\ timeoutId = "armed" /\ elapsed = TIMEOUT_MS
    /\ timeoutId' = "fired"
    /\ loginProcs[attempt] = "running"
    /\ loginProcs' = SetProc(loginProcs, attempt, "killed")
    /\ attemptPromise' = "rejected"
    /\ loginResult' # "resolved"
    /\ loginResult' = "rejected" => loginError'.kind = "timeout"

\* The subprocess won, by closing or by failing to start: it has ended and
\* the timer is no longer set; the attempt succeeded (and with it the
\* login), or failed with the error of the close or of the spawn.
ProcessWins ==
    /\ loginProcs[attempt] = "running"
    /\ timeoutId = "armed"
    /\ timeoutId' \notin {"armed", "fired"}
    /\ \/ loginResult' = "resolved"
       \/ /\ attemptPromise' = "rejected"
          /\ loginProcs' = SetProc(loginProcs, attempt, "exited")
          /\ loginResult' # "resolved"
          /\ loginResult' = "rejected" => loginError'.kind \in {"failed", "spawn"}

\* C23 (login attempt race): the close (or spawn error) of the attempt's
\* subprocess and the attempt's timer race; the first to fire settles the
\* attempt and the loser is cancelled (the timer cleared, or the subprocess
\* killed); a cleared timer never fires, and no later step of the same
\* attempt, such as the close of the killed subprocess, changes the outcome.
C23_LoginAttemptRace ==
    [][/\ AttemptSettles => (TimerWins \/ ProcessWins)
       /\ timeoutId' = "fired" => AttemptSettles \/ timeoutId = "fired"
       /\ (timeoutId = "cleared" /\ attempt' = attempt) => timeoutId' = "cleared"
       /\ (attemptPromise \in {"resolved", "rejected"} /\ attempt' = attempt) =>
             /\ attemptPromise' = attemptPromise
             /\ loginResult' = loginResult
             /\ loginError' = loginError
             /\ waits' = waits]_vars

\* The last attempt timed out, and its killed subprocess has closed since:
\* the login stays failed by timeout.
C23_Witness ==
    /\ entry = "dockerLogin"
    /\ loginResult = "rejected"
    /\ loginError.kind = "timeout"
    /\ timeoutId = "fired"
    /\ loginProcs[attempt] = "exited"

\* C24 (no concurrent login attempts): at most one login subprocess started
\* by dockerLogin is alive at any moment; a subprocess that was sent the
\* kill signal is alive until it closes.
C24_OneLoginProcessAlive ==
    Cardinality({k \in 1..Len(loginProcs) :
                    loginProcs[k] \in {"running", "killed"}}) <= 1

\* The push subprocess has closed or has failed to start.
PushEnded == pushProcess \in {"closed", "failed"}

\* C25 (watchdog cancellation): once the push subprocess has closed or has
\* failed to start, the watchdog is cancelled and stays so: no later step
\* kills the process or turns the outcome into the stall error.
C25_WatchdogCancelled ==
    [][/\ PushEnded' => timeoutCheck' = "cleared"
       /\ PushEnded =>
             /\ PushEnded'
             /\ now' = now
             /\ pushError'.kind = "stall" => pushError.kind = "stall"]_vars

\* The watchdog ran without firing, then the subprocess closed with 0.
C25_Witness ==
    /\ pushProcess = "closed"
    /\ pushExitCode = 0
    /\ now > 0
    /\ timeoutCheck = "cleared"
    /\ pushPromise = "resolved"

\* C26 (teardown after stall): after the watchdog has fired, no further
\* progress event is delivered and the outcome stays the stall failure.
C26_InertAfterStall ==
    [][pushError.kind = "stall" =>
          /\ lastEvent' = lastEvent
          /\ pushPromise' = "rejected"
          /\ pushError' = pushError]_vars

\* C27 (explicit push error): a push whose error stream showed 'error',
\* 'denied' or 'unauthorized', or whose subprocess exits with a non-zero
\* code, ends in failure, whatever the exit code.
C27_ExplicitPushError ==
    (pushProcess = "closed" /\ (hasError \/ pushExitCode > 0)) =>
        pushPromise = "rejected"

\* The session after a terminal line for layer id.
AfterTerminal(id, wording) ==
    ProcessLine(CurrentSession, Line(id, wording, NoProgress))

\* C28 (terminal wording equivalence): in every session state and for every
\* layer id, 'Layer already exists' leaves the session as 'Pushed' does: the
\* layer ends completed, with current = total if total > 0, created with
\* total = 0 and current = 0 if it was unseen, and counted once.
C28_TerminalWording ==
    PushListening =>
        \A id \in LayerIds :
            LET s == AfterTerminal(id, "Layer already exists")
                counted == IF Known(layers, id) /\ layers[id].completed
                           THEN 0 ELSE 1
            IN /\ s = AfterTerminal(id, "Pushed")
               /\ s.layers[id].completed
               /\ s.layers[id].total > 0 =>
                     s.layers[id].current = s.layers[id].total
               /\ ~Known(layers, id) =>
                     (s.layers[id].total = 0 /\ s.layers[id].current = 0)
               /\ s.completedLayers = completedLayers + counted

\* An HTTP status of the 2xx class.
Is2xx(status) == status >= 200 /\ status < 300

\* C29 (generic request contract): whatever response a pending request of
\* lambdaDeploy gets, makeApiRequest resolves with the body exactly when the
\* status is 2xx, rejects every other HTTP response with its status code and
\* its body, and rejects a transport failure with no status code.
C29_RequestContract ==
    (entry = "lambdaDeploy" /\ pc \in {"credentials", "confirm"}) =>
        \A resp \in Responses :
            LET r == MakeApiRequest(resp) IN
            IF resp.kind = "transport"
            THEN ~r.ok /\ r.statusCode = 0
            ELSE /\ r.ok <=> Is2xx(resp.status)
                 /\ r.value = resp.body
                 /\ ~Is2xx(resp.status) => r.statusCode = resp.status

\* C30 (forwarding of query parameters): the request a command issues
\* carries the query string the command built: '?force=true' for bucketDelete
\* with --force, page and per_page for lambdaLogs, folder_path, page and
\* per_page for fileList.
C30_QueryForwarded ==
    pc \in {"request", "returned"} =>
        /\ (entry = "bucketDelete" /\ options.force) =>
              Includes(httpRequest.path, <<"?", "f", "o", "r", "c", "e", "=", "t", "r", "u", "e">>)
        /\ (entry \in {"lambdaLogs", "fileList"} /\ options.page # <<>>) =>
              Includes(httpRequest.path, <<"p", "a", "g", "e", "=">>)
        /\ (entry \in {"lambdaLogs", "fileList"} /\ options.perPage # <<>>) =>
              Includes(httpRequest.path, <<"p", "e", "r", "_", "p", "a", "g", "e", "=">>)
        /\ (entry = "fileList" /\ options.folder # <<>>) =>
              Includes(httpRequest.path, <<"f", "o", "l", "d", "e", "r", "_", "p", "a", "t", "h", "=">>)

=============================================================================
